---- MODULE Spec2Model ----
(***************************************************************************)
(* Peer synchronisation engine of flexi-tracker: the protocol codec        *)
(* (sync-protocol), the merge engine (merge-strategy), the transport       *)
(* session (PeerConnectionManager) and the session controller (the         *)
(* useP2PSync hook), modelled as one state machine of a single device and  *)
(* its environment (the transport library, the remote peer, timers, the    *)
(* user).                                                                  *)
(***************************************************************************)
EXTENDS Integers, Sequences, FiniteSets, TLC

(***************************************************************************)
(* JavaScript values.  Every value carries its run-time type tag, so that  *)
(* typeof, truthiness and === are computed, not assumed.  Strings that the *)
(* code tests with a regular expression are sequences of characters (Text);*)
(* strings that are only compared are opaque (Str).  A number is n, or     *)
(* n + 1/2 when half is TRUE.                                              *)
(***************************************************************************)
Undef == [t |-> "undefined"]
Null == [t |-> "null"]
Num(n) == [t |-> "number", n |-> n, half |-> FALSE]
NumHalf(n) == [t |-> "number", n |-> n, half |-> TRUE]
Str(s) == [t |-> "string", s |-> s]
Text(cs) == [t |-> "string", cs |-> cs]
Arr(items) == [t |-> "array", items |-> items]
Obj(kv) == [t |-> "object", kv |-> kv]

\* typeof x
TypeOf(x) == IF x.t \in {"object", "array", "null", "entry", "adjustment", "settings",
                         "leave", "payload", "message"}
             THEN "object" ELSE x.t

\* !!x
Truthy(x) ==
    CASE x.t \in {"undefined", "null"} -> FALSE
      [] x.t = "number" -> (x.n # 0 \/ x.half)
      [] x.t = "string" -> (IF "cs" \in DOMAIN x THEN x.cs # <<>> ELSE x.s # "")
      [] OTHER -> TRUE

\* x != null   (loose: neither null nor undefined)
NotNullish(x) == x.t \notin {"undefined", "null"}

\* x < k and x <= k, x >= k for a number value x and an integer k
NumLt(x, k) == x.n < k
NumLe(x, k) == IF x.half THEN x.n < k ELSE x.n <= k
NumGe(x, k) == x.n >= k

Digits == {"0", "1", "2", "3", "4", "5", "6", "7", "8", "9"}
DigitChars == <<"0", "1", "2", "3", "4", "5", "6", "7", "8", "9">>
DigitVal(c) == (CHOOSE i \in 1..10 : DigitChars[i] = c) - 1

\* Object.keys(o): own keys in insertion order; the indices of an array
ObjectKeys(o) ==
    IF o.t = "object" THEN [i \in 1..Len(o.kv) |-> o.kv[i].k]
    ELSE IF o.t = "array" THEN [i \in 1..Len(o.items) |-> <<DigitChars[i]>>]
    ELSE <<>>

RangeOf(s) == {s[i] : i \in 1..Len(s)}

\* o[key]
Get(o, key) ==
    IF o.t = "object" /\ \E i \in 1..Len(o.kv) : o.kv[i].k = key
    THEN o.kv[CHOOSE i \in 1..Len(o.kv) : o.kv[i].k = key].v
    ELSE Undef

\* o[key] = v on a copy of o: replaces in place, or appends a new key
ObjSet(o, key, v) ==
    IF \E i \in 1..Len(o.kv) : o.kv[i].k = key
    THEN Obj([i \in 1..Len(o.kv) |->
                 IF o.kv[i].k = key THEN [k |-> key, v |-> v] ELSE o.kv[i]])
    ELSE Obj(Append(o.kv, [k |-> key, v |-> v]))

(***************************************************************************)
(* Domain types (types/flexi-tracker).                                     *)
(***************************************************************************)
DayEntry(st, en, br, dt) ==
    [t |-> "entry", startTime |-> st, endTime |-> en, breakMinutes |-> br, dayType |-> dt]
Adjustment(id, date, minutes, note) ==
    [t |-> "adjustment", id |-> id, date |-> date, minutes |-> minutes, note |-> note]
Settings(wd, exp, ws, disp, rate) ==
    [t |-> "settings", workingDays |-> wd, expectedMinutesPerDay |-> exp,
     weekStartsOn |-> ws, nonWorkingDayDisplay |-> disp, nonWorkingDayRate |-> rate]
LeaveBalance(total, ps, pe) ==
    [t |-> "leave", totalDays |-> total, periodStart |-> ps, periodEnd |-> pe]
SyncPayload(entries, adjustments, settings, leaveBalance, timestamp) ==
    [t |-> "payload", entries |-> entries, adjustments |-> adjustments,
     settings |-> settings, leaveBalance |-> leaveBalance, timestamp |-> timestamp]

(***************************************************************************)
(* Protocol codec (sync-protocol).                                         *)
(***************************************************************************)
createSyncRequest(payload) == [t |-> "message", type |-> "SYNC_REQUEST", payload |-> payload]
createSyncResponse(payload) == [t |-> "message", type |-> "SYNC_RESPONSE", payload |-> payload]
createSyncComplete == [t |-> "message", type |-> "SYNC_COMPLETE", payload |-> Undef]

isSyncMessage(data) ==
    IF ~Truthy(data) \/ TypeOf(data) # "object" THEN FALSE
    ELSE /\ data.t = "message"
         /\ data.type \in {"SYNC_REQUEST", "SYNC_RESPONSE", "SYNC_COMPLETE"}

\* DATE_KEY_RE testing the length only
DATE_KEY_RE_AnyTen(cs) == Len(cs) = 10

\* /^\d{4}-\d{2}-\d{2}$/.test(cs)
DATE_KEY_RE(cs) ==
    /\ Len(cs) = 10
    /\ \A i \in {1, 2, 3, 4, 6, 7, 9, 10} : cs[i] \in Digits
    /\ cs[5] = "-" /\ cs[8] = "-"

\* /^\d{2}:\d{2}$/.test(cs)
TIME_RE(cs) ==
    /\ Len(cs) = 5
    /\ \A i \in {1, 2, 4, 5} : cs[i] \in Digits
    /\ cs[3] = ":"

VALID_DAY_TYPES ==
    {"normal", "sick", "sick-half", "holiday", "holiday-half", "flexi", "flexi-half"}
\* MAX_ENTRIES one lower
MAX_ENTRIES_OneLess == 10000 - 1

MAX_ENTRIES == 10000
MAX_ADJUSTMENTS == 5000
BLOCKED_KEYS ==
    { <<"_", "_", "p", "r", "o", "t", "o", "_", "_">>,
      <<"c", "o", "n", "s", "t", "r", "u", "c", "t", "o", "r">>,
      <<"p", "r", "o", "t", "o", "t", "y", "p", "e">> }

\* a string value that the regular expression re accepts
IsTextMatching(x, re(_)) == x.t = "string" /\ "cs" \in DOMAIN x /\ re(x.cs)

isValidDayEntry(entry) ==
    IF ~Truthy(entry) \/ TypeOf(entry) # "object" THEN FALSE
    ELSE IF entry.t # "entry" THEN TRUE   \* an object without any of the four fields
    ELSE /\ ~(NotNullish(entry.startTime) /\ ~IsTextMatching(entry.startTime, TIME_RE))
         /\ ~(NotNullish(entry.endTime) /\ ~IsTextMatching(entry.endTime, TIME_RE))
         /\ ~(NotNullish(entry.breakMinutes)
                /\ (entry.breakMinutes.t # "number" \/ NumLt(entry.breakMinutes, 0)))
         /\ ~(NotNullish(entry.dayType)
                /\ (entry.dayType.t # "string" \/ "s" \notin DOMAIN entry.dayType
                      \/ entry.dayType.s \notin VALID_DAY_TYPES))

isValidAdjustment(adj) ==
    IF ~Truthy(adj) \/ TypeOf(adj) # "object" THEN FALSE
    ELSE /\ adj.t = "adjustment"
         /\ adj.id.t = "string"
         /\ IsTextMatching(adj.date, DATE_KEY_RE)
         /\ adj.minutes.t = "number"
         /\ adj.note.t = "string"

isValidSettings(settings) ==
    IF ~Truthy(settings) \/ TypeOf(settings) # "object" THEN FALSE
    ELSE /\ settings.t = "settings"
         /\ settings.workingDays.t = "array"
         /\ \A i \in 1..Len(settings.workingDays.items) :
               LET d == settings.workingDays.items[i]
               IN  d.t = "number" /\ NumGe(d, 0) /\ NumLe(d, 6)
         /\ settings.expectedMinutesPerDay.t = "number"
         /\ NumGe(settings.expectedMinutesPerDay, 0)
         /\ settings.weekStartsOn.t = "number"
         /\ (settings.weekStartsOn = Num(0) \/ settings.weekStartsOn = Num(1))
         /\ settings.nonWorkingDayDisplay.t = "string"
         /\ settings.nonWorkingDayRate.t = "number"

validateSyncPayload(payload) ==
    IF ~Truthy(payload) \/ TypeOf(payload) # "object" THEN FALSE
    ELSE IF payload.t # "payload" THEN FALSE   \* none of the fields present
    ELSE IF \/ TypeOf(payload.entries) # "object"
            \/ payload.entries = Null
            \/ payload.adjustments.t # "array"
            \/ TypeOf(payload.settings) # "object"
            \/ payload.settings = Null
            \/ payload.timestamp.t # "number"
         THEN FALSE
    ELSE LET entryKeys == ObjectKeys(payload.entries)
         IN  IF Len(entryKeys) > MAX_ENTRIES THEN FALSE
             ELSE IF Len(payload.adjustments.items) > MAX_ADJUSTMENTS THEN FALSE
             ELSE /\ \A i \in 1..Len(entryKeys) :
                        /\ entryKeys[i] \notin BLOCKED_KEYS
                        /\ DATE_KEY_RE(entryKeys[i])
                        \* p.entries[key] of the i-th own key is the i-th value
                        /\ isValidDayEntry(IF payload.entries.t = "array"
                                           THEN payload.entries.items[i]
                                           ELSE payload.entries.kv[i].v)
                  /\ \A i \in 1..Len(payload.adjustments.items) :
                        isValidAdjustment(payload.adjustments.items[i])
                  /\ isValidSettings(payload.settings)

(***************************************************************************)
(* Merge engine (merge-strategy).                                          *)
(***************************************************************************)
\* entriesAreEqual comparing the two times only
entriesAreEqual_TimesOnly(a, b) ==
    /\ a.startTime = b.startTime
    /\ a.endTime = b.endTime

entriesAreEqual(a, b) ==
    /\ a.startTime = b.startTime
    /\ a.endTime = b.endTime
    /\ a.breakMinutes = b.breakMinutes
    /\ a.dayType = b.dayType

entryIsEmpty(entry) ==
    IF ~Truthy(entry) THEN TRUE
    ELSE /\ ~Truthy(entry.startTime)
         /\ ~Truthy(entry.endTime)
         /\ ~Truthy(entry.breakMinutes)
         /\ ~Truthy(entry.dayType)

\* new Set([...Object.keys(local), ...Object.keys(remote)]), in iteration order
AllDates(local, remote) ==
    LET lk == ObjectKeys(local)
        rk == ObjectKeys(remote)
    IN  lk \o SelectSeq(rk, LAMBDA k : k \notin RangeOf(lk))

RECURSIVE ConflictsOver(_, _, _)
ConflictsOver(dates, local, remote) ==
    IF dates = <<>> THEN <<>>
    ELSE LET date == Head(dates)
             localEntry == Get(local, date)
             remoteEntry == Get(remote, date)
             localEmpty == entryIsEmpty(localEntry)
             remoteEmpty == entryIsEmpty(remoteEntry)
             rest == ConflictsOver(Tail(dates), local, remote)
         IN  IF ~localEmpty /\ ~remoteEmpty /\ ~entriesAreEqual(localEntry, remoteEntry)
             THEN <<[date |-> date, local |-> localEntry, remote |-> remoteEntry]>> \o rest
             ELSE rest

\* detectConflicts recording the local entry on both sides of a conflict
detectConflicts_LocalTwice(local, remote) ==
    LET conflicts == ConflictsOver(AllDates(local, remote), local, remote)
    IN  [i \in 1..Len(conflicts) |-> [conflicts[i] EXCEPT !.remote = conflicts[i].local]]

detectConflicts(local, remote) == ConflictsOver(AllDates(local, remote), local, remote)

RECURSIVE MergeOver(_, _, _, _)
MergeOver(dates, local, remote, conflictDates) ==
    IF dates = <<>> THEN <<>>
    ELSE LET date == Head(dates)
             localEntry == Get(local, date)
             remoteEntry == Get(remote, date)
             localEmpty == entryIsEmpty(localEntry)
             remoteEmpty == entryIsEmpty(remoteEntry)
             rest == MergeOver(Tail(dates), local, remote, conflictDates)
         IN  IF date \in conflictDates THEN rest
             ELSE IF ~localEmpty /\ remoteEmpty THEN <<[k |-> date, v |-> localEntry]>> \o rest
             ELSE IF localEmpty /\ ~remoteEmpty THEN <<[k |-> date, v |-> remoteEntry]>> \o rest
             ELSE IF ~localEmpty /\ ~remoteEmpty THEN <<[k |-> date, v |-> localEntry]>> \o rest
             ELSE rest

\* mergeNonConflicting that does not skip the conflict dates
mergeNonConflicting_KeepsConflicts(local, remote, conflicts) ==
    Obj(MergeOver(AllDates(local, remote), local, remote, {}))

\* mergeNonConflicting going over the local dates only
mergeNonConflicting_LocalDates(local, remote, conflicts) ==
    Obj(MergeOver(ObjectKeys(local), local, remote,
                  {conflicts[i].date : i \in 1..Len(conflicts)}))

mergeNonConflicting(local, remote, conflicts) ==
    Obj(MergeOver(AllDates(local, remote), local, remote,
                  {conflicts[i].date : i \in 1..Len(conflicts)}))

\* resolutions.get(date): a Map is a function on the dates that have a choice
MapGet(resolutions, date) ==
    IF date \in DOMAIN resolutions THEN resolutions[date] ELSE "undefined"

RECURSIVE applyResolutions(_, _, _)
applyResolutions(merged, resolutions, conflicts) ==
    IF conflicts = <<>> THEN merged
    ELSE LET conflict == Head(conflicts)
             choice == MapGet(resolutions, conflict.date)
             result == IF choice = "local" THEN ObjSet(merged, conflict.date, conflict.local)
                       ELSE IF choice = "remote"
                            THEN ObjSet(merged, conflict.date, conflict.remote)
                       ELSE merged
         IN  applyResolutions(result, resolutions, Tail(conflicts))

\* new Date(cs).getTime() of a YYYY-MM-DD string, on a scale that keeps the order
\* of calendar dates; "NaN" for a month outside 01..12 or a day outside 01..31.
DateTime(cs) ==
    LET y == DigitVal(cs[1]) * 1000 + DigitVal(cs[2]) * 100 + DigitVal(cs[3]) * 10
               + DigitVal(cs[4])
        m == DigitVal(cs[6]) * 10 + DigitVal(cs[7])
        d == DigitVal(cs[9]) * 10 + DigitVal(cs[10])
    IN  IF m \in 1..12 /\ d \in 1..31
        THEN [nan |-> FALSE, ms |-> (y * 12 + (m - 1)) * 31 + (d - 1)]
        ELSE [nan |-> TRUE, ms |-> 0]

\* the comparator (a, b) => new Date(a.date).getTime() - new Date(b.date).getTime();
\* a NaN result counts as 0 in Array.prototype.sort
AdjustmentCompare(a, b) ==
    LET ta == DateTime(a.date.cs)
        tb == DateTime(b.date.cs)
    IN  IF ta.nan \/ tb.nan THEN 0 ELSE ta.ms - tb.ms

\* the default sort of [...a].sort() orders by the decimal string; for the one-digit
\* numbers and halves of the model that is the numeric order
NumberCompare(a, b) ==
    (2 * a.n + (IF a.half THEN 1 ELSE 0)) - (2 * b.n + (IF b.half THEN 1 ELSE 0))

\* the comparator of a sort: "date" for mergeAdjustments, "default" for arraysEqual
Compare(kind, a, b) ==
    IF kind = "date" THEN AdjustmentCompare(a, b) ELSE NumberCompare(a, b)

\* stable insertion of x into the sorted sequence s, after its equals
RECURSIVE InsertSorted(_, _, _)
InsertSorted(s, x, kind) ==
    IF s = <<>> THEN <<x>>
    ELSE IF Compare(kind, x, Head(s)) < 0 THEN <<x>> \o s
    ELSE <<Head(s)>> \o InsertSorted(Tail(s), x, kind)

\* Array.prototype.sort: a stable sort
RECURSIVE SortBy(_, _)
SortBy(s, kind) ==
    IF s = <<>> THEN <<>>
    ELSE InsertSorted(SortBy(SubSeq(s, 1, Len(s) - 1), kind), s[Len(s)], kind)

\* the values of byId in insertion order: local adjustments (a later duplicate id
\* overwrites the value but keeps the position), then remote ones with new ids
RECURSIVE ByIdValues(_, _, _)
ByIdValues(acc, adjs, overwrite) ==
    IF adjs = <<>> THEN acc
    ELSE LET adj == Head(adjs)
             has == \E i \in 1..Len(acc) : acc[i].id = adj.id
             next == IF ~has THEN Append(acc, adj)
                     ELSE IF overwrite
                          THEN [i \in 1..Len(acc) |-> IF acc[i].id = adj.id THEN adj ELSE acc[i]]
                     ELSE acc
         IN  ByIdValues(next, Tail(adjs), overwrite)

\* mergeAdjustments in which a remote adjustment replaces the local one of its id
mergeAdjustments_RemoteWins(local, remote) ==
    Arr(SortBy(ByIdValues(ByIdValues(<<>>, local.items, TRUE), remote.items, TRUE),
               "date"))

mergeAdjustments(local, remote) ==
    Arr(SortBy(ByIdValues(ByIdValues(<<>>, local.items, TRUE), remote.items, FALSE),
               "date"))

arraysEqual(a, b) ==
    IF Len(a.items) # Len(b.items) THEN FALSE
    ELSE LET sortedA == SortBy(a.items, "default")
             sortedB == SortBy(b.items, "default")
         IN  \A i \in 1..Len(sortedA) : sortedA[i] = sortedB[i]

settingsAreEqual(local, remote) ==
    /\ arraysEqual(local.workingDays, remote.workingDays)
    /\ local.expectedMinutesPerDay = remote.expectedMinutesPerDay
    /\ local.weekStartsOn = remote.weekStartsOn
    /\ local.nonWorkingDayDisplay = remote.nonWorkingDayDisplay
    /\ local.nonWorkingDayRate = remote.nonWorkingDayRate

detectSettingsConflict(local, remote) ==
    IF settingsAreEqual(local, remote) THEN Null
    ELSE [t |-> "conflict", local |-> local, remote |-> remote]

\* mergeLeaveBalance preferring the remote leave balance
mergeLeaveBalance_PrefersRemote(local, remote) ==
    IF Truthy(local) /\ Truthy(remote) THEN remote
    ELSE IF Truthy(remote) THEN remote ELSE local

mergeLeaveBalance(local, remote) ==
    IF Truthy(local) /\ Truthy(remote) THEN local
    ELSE IF Truthy(local) THEN local ELSE remote

prepareSyncResult(localPayload, remotePayload) ==
    LET entryConflicts == detectConflicts(localPayload.entries, remotePayload.entries)
        mergedEntries == mergeNonConflicting(localPayload.entries, remotePayload.entries,
                                             entryConflicts)
        mergedAdjustments == mergeAdjustments(localPayload.adjustments,
                                              remotePayload.adjustments)
        settingsConflict == detectSettingsConflict(localPayload.settings,
                                                   remotePayload.settings)
        mergedLeaveBalance == mergeLeaveBalance(localPayload.leaveBalance,
                                                remotePayload.leaveBalance)
    IN  [mergedEntries |-> mergedEntries,
         mergedAdjustments |-> mergedAdjustments,
         mergedSettings |-> localPayload.settings,
         mergedLeaveBalance |-> mergedLeaveBalance,
         entryConflicts |-> entryConflicts,
         settingsConflict |-> settingsConflict]

(***************************************************************************)
(* Bounds of the model.                                                    *)
(***************************************************************************)
MaxSessions == 2     \* startHosting / connectToPeer calls, each creating a manager
MaxConns == 2        \* incoming connections per hosting manager
MaxData == 2         \* inbound data events
MaxTimers == 2       \* 120-second timeouts armed at the same time
MaxDelivered == 2    \* onMerge invocations recorded per session

(***************************************************************************)
(* The data of the model: this device's application state and the payloads *)
(* a peer may send.                                                        *)
(***************************************************************************)
D1 == <<"2", "0", "2", "4", "-", "0", "1", "-", "1", "0">>
D2 == <<"2", "0", "2", "4", "-", "0", "1", "-", "1", "1">>
T0900 == Text(<<"0", "9", ":", "0", "0">>)
T1700 == Text(<<"1", "7", ":", "0", "0">>)
EntryA == DayEntry(T0900, T1700, Undef, Undef)
EntryB == DayEntry(T0900, T1700, Num(30), Undef)
EntryH == DayEntry(Undef, Undef, Undef, Str("holiday"))
SettingsWeek == Settings(Arr(<<Num(1), Num(2), Num(3), Num(4), Num(5)>>), Num(450), Num(1),
                         Str("show"), Num(1))
SettingsAll == Settings(Arr(<<Num(0), Num(1), Num(2), Num(3), Num(4), Num(5), Num(6)>>),
                        Num(450), Num(1), Str("show"), Num(1))
Adj1 == Adjustment(Str("a1"), Text(D1), Num(15), Str("late"))
Adj2 == Adjustment(Str("a2"), Text(D2), Num(-10), Str("early"))

\* AppState of this device (the appState prop of the hook)
LocalState ==
    [entries |-> Obj(<<[k |-> D1, v |-> EntryA], [k |-> D2, v |-> EntryA]>>),
     adjustments |-> Arr(<<Adj1>>),
     settings |-> SettingsWeek,
     leaveBalance |-> Undef]

\* no conflict with LocalState
PayloadClean ==
    SyncPayload(Obj(<<[k |-> D1, v |-> EntryA]>>), Arr(<<Adj2>>), SettingsWeek, Undef, Num(1))
\* entry conflicts on D1 and D2
PayloadEntry ==
    SyncPayload(Obj(<<[k |-> D1, v |-> EntryB], [k |-> D2, v |-> EntryH]>>), Arr(<<>>),
                SettingsWeek, Undef, Num(1))
\* settings conflict
PayloadSettings ==
    SyncPayload(Obj(<<[k |-> D1, v |-> EntryA]>>), Arr(<<>>), SettingsAll, Undef, Num(1))
\* entry conflict on D1 and settings conflict
PayloadBoth ==
    SyncPayload(Obj(<<[k |-> D1, v |-> EntryB]>>), Arr(<<Adj2>>), SettingsAll, Undef, Num(1))
\* rejected by validateSyncPayload: a reserved key
PayloadProto ==
    SyncPayload(Obj(<<[k |-> <<"_", "_", "p", "r", "o", "t", "o", "_", "_">>, v |-> EntryB]>>),
                Arr(<<>>), SettingsWeek, Undef, Num(1))

\* what a data event may carry to a session of the given role: something that is not
\* a sync message, SYNC_COMPLETE, the message the role merges on with each of the
\* payloads, and the message of the other direction
Inbound(role, payloads) ==
    {Str("hello"), createSyncComplete}
      \cup (IF role = "host"
            THEN {createSyncRequest(p) : p \in payloads} \cup {createSyncResponse(PayloadClean)}
            ELSE {createSyncResponse(p) : p \in payloads} \cup {createSyncRequest(PayloadClean)})

\* The runs explored: each run has its own limits on the sessions started, on the
\* connections a hosting manager receives and on the data events, and its own set of
\* payloads the peer may send.  One limit at a time is at its bound.
Scenarios ==
    { [sessions |-> 1, conns |-> 1, data |-> MaxData, payloads |-> {PayloadClean}],
      [sessions |-> 1, conns |-> MaxConns, data |-> 1, payloads |-> {PayloadClean}],
      [sessions |-> MaxSessions, conns |-> 1, data |-> 1, payloads |-> {PayloadClean}],
      [sessions |-> 1, conns |-> 1, data |-> 1,
       payloads |-> {PayloadClean, PayloadEntry, PayloadSettings, PayloadBoth,
                     PayloadProto}] }

(***************************************************************************)
(* State.                                                                  *)
(***************************************************************************)
VARIABLES
    \* useState: P2PSyncState
    status, peerId, error, syncResult, pendingConnection,
    \* useRef
    peerManager, activeConnection, timeoutRef, remotePayload, connectionAccepted,
    pendingData,
    \* environment: the PeerConnectionManager objects, the armed 120-second timeouts,
    \* the suspended processSyncResult calls
    mgr, timers, tasks,
    \* history: managers created, data events handled, and for the current session the
    \* messages sent, the prepareSyncResult calls and the states handed to onMerge
    sessions, dataCount, sent, merges, delivered,
    \* the limits and payloads of this run
    limits,
    \* a direct call of a function of the merge engine: its arguments, and the call
    \* made with what it returned
    args, returned

vars == <<status, peerId, error, syncResult, pendingConnection, peerManager,
          activeConnection, timeoutRef, remotePayload, connectionAccepted, pendingData,
          mgr, timers, tasks, sessions, dataCount, sent, merges, delivered, limits,
          args, returned>>

\* a DataConnection: connection c of manager m (c = 0 is the connection the manager
\* dialled); NoConn is null
Conn(m, c) == [m |-> m, c |-> c]
NoConn == [m |-> 0, c |-> 0]

NoManager ==
    [st |-> "unused", role |-> "none", peerOpen |-> FALSE, conns |-> {}, used |-> 0,
     promise |-> "none", dialing |-> FALSE, dialTimer |-> FALSE]

TIMEOUT_REASON == "Connection timed out. QR code expired."
CONNECT_TIMEOUT_REASON == "Connection timeout"
TRANSPORT_REASON == "transport error"

\* no direct call of the merge engine is made
NoArgs == [kind |-> "none", local |-> Obj(<<>>), remote |-> Obj(<<>>)]
NoCall == [fn |-> "none"]

\* the state as one record, so that a handler is a function from state to state
Now ==
    [status |-> status, peerId |-> peerId, error |-> error, syncResult |-> syncResult,
     pendingConnection |-> pendingConnection, peerManager |-> peerManager,
     activeConnection |-> activeConnection, timeoutRef |-> timeoutRef,
     remotePayload |-> remotePayload, connectionAccepted |-> connectionAccepted,
     pendingData |-> pendingData, mgr |-> mgr, timers |-> timers, tasks |-> tasks,
     sessions |-> sessions, dataCount |-> dataCount, sent |-> sent, merges |-> merges,
     delivered |-> delivered]

Commit(s) ==
    /\ status' = s.status
    /\ peerId' = s.peerId
    /\ error' = s.error
    /\ syncResult' = s.syncResult
    /\ pendingConnection' = s.pendingConnection
    /\ peerManager' = s.peerManager
    /\ activeConnection' = s.activeConnection
    /\ timeoutRef' = s.timeoutRef
    /\ remotePayload' = s.remotePayload
    /\ connectionAccepted' = s.connectionAccepted
    /\ pendingData' = s.pendingData
    /\ mgr' = s.mgr
    /\ timers' = s.timers
    /\ tasks' = s.tasks
    /\ sessions' = s.sessions
    /\ dataCount' = s.dataCount
    /\ sent' = s.sent
    /\ merges' = s.merges
    /\ delivered' = s.delivered
    /\ UNCHANGED <<limits, args, returned>>

Init ==
    /\ status = "idle"
    /\ peerId = 0
    /\ error = "null"
    /\ syncResult = <<>>
    /\ pendingConnection = NoConn
    /\ peerManager = 0
    /\ activeConnection = NoConn
    /\ timeoutRef = 0
    /\ remotePayload = <<>>
    /\ connectionAccepted = FALSE
    /\ pendingData = <<>>
    /\ mgr = [m \in 1..MaxSessions |-> NoManager]
    /\ timers = {}
    /\ tasks = <<>>
    /\ sessions = 0
    /\ dataCount = 0
    /\ sent = <<>>
    /\ merges = <<>>
    /\ delivered = <<>>
    /\ limits \in Scenarios
    /\ args = NoArgs
    /\ returned = NoCall

\* the appState prop is the same snapshot for the whole run: persistence is outside
createLocalPayload ==
    SyncPayload(LocalState.entries, LocalState.adjustments, LocalState.settings,
                LocalState.leaveBalance, Num(0))

(***************************************************************************)
(* Transport session (PeerConnectionManager).                              *)
(***************************************************************************)
\* conn.open
ConnOpen(s, conn) ==
    /\ conn.m # 0
    /\ s.mgr[conn.m].st = "live"
    /\ conn.c \in s.mgr[conn.m].conns

\* PeerConnectionManager.sendData(conn, data)
sendData(s, conn, data) ==
    IF ConnOpen(s, conn)
    THEN [s EXCEPT !.sent = Append(@, [type |-> data.type, conn |-> conn,
                                      own |-> data.payload = createLocalPayload])]
    ELSE s

\* PeerConnectionManager.closeConnection(conn)
closeConnection(s, conn) ==
    IF conn.m # 0
    THEN [s EXCEPT !.mgr[conn.m].conns = @ \ {conn.c}]
    ELSE s

\* PeerConnectionManager.destroy() of manager m: every connection is closed and the
\* peer is destroyed, so none of its events is delivered any more.  The promise of a
\* pending connect and its 10-second timer are left as they are.
destroy(s, m) ==
    IF m = 0 THEN s
    ELSE [s EXCEPT !.mgr[m] = [@ EXCEPT !.st = "destroyed", !.conns = {},
                                        !.peerOpen = FALSE, !.used = 0]]

(***************************************************************************)
(* Session controller (useP2PSync).                                        *)
(***************************************************************************)
\* setTimeout(..., 120000): the armed timeout gets the least free identifier
CanArm(s) == \E t \in 1..MaxTimers : t \notin s.timers
NewTimer(s) == CHOOSE t \in 1..MaxTimers :
                   t \notin s.timers /\ \A u \in 1..(t - 1) : u \in s.timers

\* clearTimeout(timeoutRef.current); timeoutRef.current = null
clearHostTimeout(s) ==
    IF s.timeoutRef # 0
    THEN [s EXCEPT !.timers = @ \ {s.timeoutRef}, !.timeoutRef = 0]
    ELSE s

cleanup(s) ==
    LET s1 == clearHostTimeout(s)
        s2 == destroy(s1, s1.peerManager)
    IN  [s2 EXCEPT !.peerManager = 0,
                   !.activeConnection = NoConn,
                   !.remotePayload = <<>>,
                   !.connectionAccepted = FALSE,
                   !.pendingData = <<>>]

onMerge(s, state) == [s EXCEPT !.delivered = Append(@, state)]

\* processSyncResult up to its first await: the rest is a suspended task
processSyncResult(s, result, conn) ==
    [s EXCEPT !.status = "syncing-entries",
              !.syncResult = <<result>>,
              !.tasks = Append(@, [result |-> result, conn |-> conn, pc |-> "wait800"])]

\* processSyncResult after the second await, testing the settings conflict first
finishSyncResult_SettingsFirst(s, result, conn) ==
    IF Truthy(result.settingsConflict) THEN [s EXCEPT !.status = "settings-conflict"]
    ELSE IF Len(result.entryConflicts) > 0 THEN [s EXCEPT !.status = "entry-conflicts"]
    ELSE LET s1 == onMerge(s, [entries |-> result.mergedEntries,
                               adjustments |-> result.mergedAdjustments,
                               settings |-> result.mergedSettings,
                               leaveBalance |-> result.mergedLeaveBalance])
             s2 == IF s1.peerManager # 0 THEN sendData(s1, conn, createSyncComplete) ELSE s1
         IN  [s2 EXCEPT !.status = "complete"]

\* processSyncResult after the second await (lines 103-123)
finishSyncResult(s, result, conn) ==
    IF Len(result.entryConflicts) > 0 THEN [s EXCEPT !.status = "entry-conflicts"]
    ELSE IF Truthy(result.settingsConflict) THEN [s EXCEPT !.status = "settings-conflict"]
    ELSE LET s1 == onMerge(s, [entries |-> result.mergedEntries,
                               adjustments |-> result.mergedAdjustments,
                               settings |-> result.mergedSettings,
                               leaveBalance |-> result.mergedLeaveBalance])
             s2 == IF s1.peerManager # 0 THEN sendData(s1, conn, createSyncComplete) ELSE s1
         IN  [s2 EXCEPT !.status = "complete"]

\* the call of prepareSyncResult, recorded
mergeWith(s, localPayload, payload) ==
    [s EXCEPT !.merges = Append(@, payload)]

\* processIncomingData trusting the payload of every SYNC_REQUEST
processIncomingData_Unvalidated(s, data, conn) ==
    IF ~isSyncMessage(data) THEN s
    ELSE IF data.type = "SYNC_REQUEST"
    THEN LET s1 == [s EXCEPT !.remotePayload = <<data.payload>>]
             localPayload == createLocalPayload
             s2 == IF s1.peerManager # 0
                   THEN sendData(s1, conn, createSyncResponse(localPayload))
                   ELSE s1
             result == prepareSyncResult(localPayload, data.payload)
         IN  processSyncResult(mergeWith(s2, localPayload, data.payload), result, conn)
    ELSE IF data.type = "SYNC_COMPLETE" THEN [s EXCEPT !.status = "complete"]
    ELSE s

processIncomingData(s, data, conn) ==
    IF ~isSyncMessage(data) THEN s
    ELSE IF data.type = "SYNC_REQUEST" /\ validateSyncPayload(data.payload)
    THEN LET s1 == [s EXCEPT !.remotePayload = <<data.payload>>]
             localPayload == createLocalPayload
             s2 == IF s1.peerManager # 0
                   THEN sendData(s1, conn, createSyncResponse(localPayload))
                   ELSE s1
             result == prepareSyncResult(localPayload, data.payload)
         IN  processSyncResult(mergeWith(s2, localPayload, data.payload), result, conn)
    ELSE IF data.type = "SYNC_COMPLETE" THEN [s EXCEPT !.status = "complete"]
    ELSE s

\* the host's onData handler without the buffer for unaccepted connections
hostOnData_Unbuffered(s, data, conn) ==
    IF ~isSyncMessage(data) THEN s
    ELSE processIncomingData(s, data, conn)

\* the onData handler startHosting registers
hostOnData(s, data, conn) ==
    IF ~isSyncMessage(data) THEN s
    ELSE IF ~s.connectionAccepted
    THEN [s EXCEPT !.pendingData = <<[data |-> data, conn |-> conn]>>]
    ELSE processIncomingData(s, data, conn)

\* the initiator's onData handler ignoring SYNC_COMPLETE
initiatorOnData_IgnoresComplete(s, data, conn) ==
    IF ~isSyncMessage(data) THEN s
    ELSE IF data.type = "SYNC_RESPONSE" /\ validateSyncPayload(data.payload)
    THEN LET localPayload == createLocalPayload
             s1 == [s EXCEPT !.remotePayload = <<data.payload>>]
             result == prepareSyncResult(localPayload, data.payload)
         IN  processSyncResult(mergeWith(s1, localPayload, data.payload), result, conn)
    ELSE s

\* the onData handler connectToPeer registers
initiatorOnData(s, data, conn) ==
    IF ~isSyncMessage(data) THEN s
    ELSE IF data.type = "SYNC_RESPONSE" /\ validateSyncPayload(data.payload)
    THEN LET localPayload == createLocalPayload
             s1 == [s EXCEPT !.remotePayload = <<data.payload>>]
             result == prepareSyncResult(localPayload, data.payload)
         IN  processSyncResult(mergeWith(s1, localPayload, data.payload), result, conn)
    ELSE IF data.type = "SYNC_COMPLETE" THEN [s EXCEPT !.status = "complete"]
    ELSE s

\* the onConnection handler startHosting registers
hostOnConnection(s, conn) ==
    clearHostTimeout([s EXCEPT !.status = "awaiting-acceptance",
                               !.pendingConnection = conn])

\* the onError handlers and the catch blocks
setError(s, reason) == [s EXCEPT !.status = "error", !.error = reason]

\* the callback of the 120-second timeout without its cleanup
hostTimeoutCallback_NoCleanup(s) == setError(s, TIMEOUT_REASON)

\* the callback of the 120-second timeout
hostTimeoutCallback(s) == cleanup(setError(s, TIMEOUT_REASON))

\* a new session starts: its history is empty
NewSession(s) == [s EXCEPT !.sent = <<>>, !.merges = <<>>, !.delivered = <<>>]

\* new PeerConnectionManager() for the next session
newManager(s, role) ==
    LET m == s.sessions + 1
    IN  [s EXCEPT !.peerManager = m,
                  !.sessions = m,
                  !.mgr[m] = [NoManager EXCEPT !.st = "live", !.role = role,
                                               !.promise = "pending"]]

\* startHosting up to its await
startHosting(s) ==
    LET s1 == cleanup(s)
        s2 == [s1 EXCEPT !.status = "hosting", !.error = "null", !.peerId = 0]
    IN  newManager(NewSession(s2), "host")

\* startHosting after createPeer resolved with the identity of manager m
startHostingOpened(s, m) ==
    LET s1 == [s EXCEPT !.peerId = m]
        t == NewTimer(s1)
    IN  [s1 EXCEPT !.timeoutRef = t, !.timers = @ \cup {t}]

\* acceptConnection without the replay of the buffered message
acceptConnection_NoReplay(s) ==
    LET conn == s.pendingConnection
        s1 == [s EXCEPT !.connectionAccepted = TRUE,
                        !.activeConnection = conn,
                        !.status = "syncing-entries",
                        !.pendingConnection = NoConn]
    IN  IF conn = NoConn THEN s ELSE s1

acceptConnection(s) ==
    LET conn == s.pendingConnection
        s1 == [s EXCEPT !.connectionAccepted = TRUE,
                        !.activeConnection = conn,
                        !.status = "syncing-entries",
                        !.pendingConnection = NoConn]
    IN  IF conn = NoConn THEN s
        ELSE IF s1.pendingData # <<>>
        THEN [processIncomingData(s1, s1.pendingData[1].data, s1.pendingData[1].conn)
                EXCEPT !.pendingData = <<>>]
        ELSE s1

\* rejectConnection leaving the pending connection open
rejectConnection_KeepsConnection(s) ==
    LET s2 == [s EXCEPT !.status = "hosting", !.pendingConnection = NoConn]
        t == NewTimer(s2)
    IN  [s2 EXCEPT !.timeoutRef = t, !.timers = @ \cup {t}]

rejectConnection(s) ==
    LET conn == s.pendingConnection
        s1 == IF conn # NoConn /\ s.peerManager # 0 THEN closeConnection(s, conn) ELSE s
        s2 == [s1 EXCEPT !.status = "hosting", !.pendingConnection = NoConn]
        t == NewTimer(s2)
    IN  [s2 EXCEPT !.timeoutRef = t, !.timers = @ \cup {t}]

\* connectToPeer up to its await
connectToPeer(s) ==
    LET s1 == cleanup(s)
        s2 == [s1 EXCEPT !.status = "connecting", !.error = "null"]
    IN  newManager(NewSession(s2), "initiator")

\* connectToPeer after the connect resolved, without the request
connectToPeerOpened_NoRequest(s, m) ==
    [s EXCEPT !.activeConnection = Conn(m, 0), !.status = "syncing-entries"]

\* connectToPeer after the connect resolved with the dialled connection of manager m
connectToPeerOpened(s, m) ==
    LET conn == Conn(m, 0)
        s1 == [s EXCEPT !.activeConnection = conn, !.status = "syncing-entries"]
    IN  sendData(s1, conn, createSyncRequest(createLocalPayload))

\* the loop of resolveEntryConflicts taking the other side's entry for each choice
finalEntriesOf_SidesSwapped(entries, conflicts, resolutions) ==
    applyResolutions(entries, resolutions,
                     [i \in 1..Len(conflicts) |->
                         [conflicts[i] EXCEPT !.local = conflicts[i].remote,
                                              !.remote = conflicts[i].local]])

\* the loop of resolveEntryConflicts over the conflicts (lines 304-312)
RECURSIVE finalEntriesOf(_, _, _)
finalEntriesOf(entries, conflicts, resolutions) ==
    IF conflicts = <<>> THEN entries
    ELSE LET conflict == Head(conflicts)
             choice == MapGet(resolutions, conflict.date)
             next == IF choice = "local" THEN ObjSet(entries, conflict.date, conflict.local)
                     ELSE IF choice = "remote"
                          THEN ObjSet(entries, conflict.date, conflict.remote)
                     ELSE entries
         IN  finalEntriesOf(next, Tail(conflicts), resolutions)

\* does this call of resolveEntryConflicts reach onMerge
resolveEntryConflictsMerges(s) ==
    s.syncResult # <<>> /\ ~Truthy(s.syncResult[1].settingsConflict)

\* resolveEntryConflicts not storing the entries with the choices when a settings
\* conflict is pending
resolveEntryConflicts_DropsChoices(s, resolutions) ==
    IF s.syncResult = <<>> THEN s
    ELSE LET result == s.syncResult[1]
             finalEntries == finalEntriesOf(result.mergedEntries, result.entryConflicts,
                                            resolutions)
             updatedResult == [result EXCEPT !.mergedEntries = finalEntries,
                                             !.entryConflicts = <<>>]
         IN  IF Truthy(result.settingsConflict)
             THEN [s EXCEPT !.status = "settings-conflict",
                            !.syncResult = <<[result EXCEPT !.entryConflicts = <<>>]>>]
             ELSE LET s1 == onMerge(s, [entries |-> finalEntries,
                                        adjustments |-> result.mergedAdjustments,
                                        settings |-> result.mergedSettings,
                                        leaveBalance |-> result.mergedLeaveBalance])
                      s2 == IF s1.activeConnection # NoConn /\ s1.peerManager # 0
                            THEN sendData(s1, s1.activeConnection, createSyncComplete)
                            ELSE s1
                  IN  [s2 EXCEPT !.status = "complete", !.syncResult = <<updatedResult>>]

resolveEntryConflicts(s, resolutions) ==
    IF s.syncResult = <<>> THEN s
    ELSE LET result == s.syncResult[1]
             finalEntries == finalEntriesOf(result.mergedEntries, result.entryConflicts,
                                            resolutions)
             updatedResult == [result EXCEPT !.mergedEntries = finalEntries,
                                             !.entryConflicts = <<>>]
         IN  IF Truthy(result.settingsConflict)
             THEN [s EXCEPT !.status = "settings-conflict", !.syncResult = <<updatedResult>>]
             ELSE LET s1 == onMerge(s, [entries |-> finalEntries,
                                        adjustments |-> result.mergedAdjustments,
                                        settings |-> result.mergedSettings,
                                        leaveBalance |-> result.mergedLeaveBalance])
                      s2 == IF s1.activeConnection # NoConn /\ s1.peerManager # 0
                            THEN sendData(s1, s1.activeConnection, createSyncComplete)
                            ELSE s1
                  IN  [s2 EXCEPT !.status = "complete", !.syncResult = <<updatedResult>>]

\* resolveSettingsConflict keeping the local settings whatever the choice
resolveSettingsConflict_KeepsLocal(s, choice) ==
    IF s.syncResult = <<>> \/ ~Truthy(s.syncResult[1].settingsConflict) THEN s
    ELSE LET result == s.syncResult[1]
             finalSettings == result.mergedSettings
             updatedResult == [result EXCEPT !.settingsConflict = Null]
             s1 == onMerge(s, [entries |-> result.mergedEntries,
                               adjustments |-> result.mergedAdjustments,
                               settings |-> finalSettings,
                               leaveBalance |-> result.mergedLeaveBalance])
             s2 == IF s1.activeConnection # NoConn /\ s1.peerManager # 0
                   THEN sendData(s1, s1.activeConnection, createSyncComplete)
                   ELSE s1
         IN  [s2 EXCEPT !.status = "complete", !.syncResult = <<updatedResult>>]

resolveSettingsConflict(s, choice) ==
    IF s.syncResult = <<>> \/ ~Truthy(s.syncResult[1].settingsConflict) THEN s
    ELSE LET result == s.syncResult[1]
             finalSettings == IF choice = "local" THEN result.settingsConflict.local
                              ELSE result.settingsConflict.remote
             updatedResult == [result EXCEPT !.mergedSettings = finalSettings,
                                             !.settingsConflict = Null]
             s1 == onMerge(s, [entries |-> result.mergedEntries,
                               adjustments |-> result.mergedAdjustments,
                               settings |-> finalSettings,
                               leaveBalance |-> result.mergedLeaveBalance])
             s2 == IF s1.activeConnection # NoConn /\ s1.peerManager # 0
                   THEN sendData(s1, s1.activeConnection, createSyncComplete)
                   ELSE s1
         IN  [s2 EXCEPT !.status = "complete", !.syncResult = <<updatedResult>>]

reset(s) ==
    LET s1 == cleanup(s)
    IN  NewSession([s1 EXCEPT !.status = "idle", !.peerId = 0, !.error = "null",
                              !.syncResult = <<>>, !.pendingConnection = NoConn])

startScanning(s) == [s EXCEPT !.status = "scanning", !.error = "null"]

(***************************************************************************)
(* Actions: the user's calls of the hook's functions.                      *)
(***************************************************************************)
Managers == 1..MaxSessions

StartHosting ==
    /\ sessions < limits.sessions
    /\ Commit(startHosting(Now))

StartScanning == Commit(startScanning(Now))

ConnectToPeer ==
    /\ sessions < limits.sessions
    /\ Commit(connectToPeer(Now))

AcceptConnection == Commit(acceptConnection(Now))

RejectConnection ==
    /\ CanArm(Now)
    /\ Commit(rejectConnection(Now))

\* the Maps a caller may pass: a choice for any subset of the pending conflict dates
ResolutionMaps ==
    LET dates == IF syncResult = <<>> THEN {}
                 ELSE {syncResult[1].entryConflicts[i].date :
                          i \in 1..Len(syncResult[1].entryConflicts)}
    IN  UNION {[S -> {"local", "remote"}] : S \in SUBSET dates}

ResolveEntryConflicts ==
    \E resolutions \in ResolutionMaps :
        /\ resolveEntryConflictsMerges(Now) => Len(delivered) < MaxDelivered
        /\ Commit(resolveEntryConflicts(Now, resolutions))

ResolveSettingsConflict ==
    \E choice \in {"local", "remote"} :
        /\ Len(delivered) < MaxDelivered
        /\ Commit(resolveSettingsConflict(Now, choice))

Reset == Commit(reset(Now))

(***************************************************************************)
(* Actions: events of the transport, and timers.                           *)
(***************************************************************************)
\* the peer of manager m opens: createPeer resolves.  A hosting session goes on after
\* its await; a connecting manager dials and arms its 10-second timer.
PeerOpen(m) ==
    /\ mgr[m].st = "live"
    /\ ~mgr[m].peerOpen
    /\ mgr[m].promise = "pending"
    /\ IF mgr[m].role = "host"
       THEN /\ CanArm(Now)
            /\ Commit(startHostingOpened(
                   [Now EXCEPT !.mgr[m].peerOpen = TRUE, !.mgr[m].promise = "resolved"], m))
       ELSE Commit([Now EXCEPT !.mgr[m].peerOpen = TRUE, !.mgr[m].dialing = TRUE,
                               !.mgr[m].dialTimer = TRUE])

\* an error of the peer or of a set-up connection of manager m: the onError handler
\* runs; before the peer is open the pending promise is rejected too and the catch
\* block of the session runs
TransportError(m) ==
    /\ mgr[m].st = "live"
    /\ LET s1 == setError(Now, TRANSPORT_REASON)
       IN  IF ~mgr[m].peerOpen /\ mgr[m].promise = "pending"
           THEN Commit(setError([s1 EXCEPT !.mgr[m].promise = "rejected"], TRANSPORT_REASON))
           ELSE Commit(s1)

\* a remote peer connects to hosting manager m
IncomingConnection(m) ==
    /\ mgr[m].st = "live"
    /\ mgr[m].role = "host"
    /\ mgr[m].peerOpen
    /\ mgr[m].used < limits.conns
    /\ LET c == mgr[m].used + 1
       IN  Commit(hostOnConnection(
               [Now EXCEPT !.mgr[m].used = c, !.mgr[m].conns = @ \cup {c}], Conn(m, c)))

\* data arrives on open connection c of manager m
Data(m, c, data) ==
    /\ mgr[m].st = "live"
    /\ c \in mgr[m].conns
    /\ dataCount < limits.data
    /\ LET s1 == [Now EXCEPT !.dataCount = @ + 1]
       IN  IF mgr[m].role = "host"
           THEN Commit(hostOnData(s1, data, Conn(m, c)))
           ELSE Commit(initiatorOnData(s1, data, Conn(m, c)))

DataArrives ==
    \E m \in Managers, c \in 0..MaxConns :
        \E data \in Inbound(mgr[m].role, limits.payloads) : Data(m, c, data)

\* the dialled connection of manager m opens: the connect resolves
DialOpen(m) ==
    /\ mgr[m].st = "live"
    /\ mgr[m].dialing
    /\ mgr[m].promise = "pending"
    /\ Commit(connectToPeerOpened(
           [Now EXCEPT !.mgr[m].conns = @ \cup {0}, !.mgr[m].promise = "resolved"], m))

\* the dialled connection of manager m fails before it opens: the connect rejects
DialError(m) ==
    /\ mgr[m].st = "live"
    /\ mgr[m].dialing
    /\ mgr[m].promise = "pending"
    /\ Commit(setError([Now EXCEPT !.mgr[m].promise = "rejected"], TRANSPORT_REASON))

\* the 10-second timer of the connect of manager m fires; it is never cleared
DialTimeout(m) ==
    /\ mgr[m].dialTimer
    /\ LET s1 == [Now EXCEPT !.mgr[m].dialTimer = FALSE]
       IN  IF ~ConnOpen(s1, Conn(m, 0)) /\ mgr[m].promise = "pending"
           THEN Commit(setError([s1 EXCEPT !.mgr[m].promise = "rejected"],
                                CONNECT_TIMEOUT_REASON))
           ELSE Commit(s1)

\* armed 120-second timeout t fires
HostTimeout(t) ==
    /\ t \in timers
    /\ Commit(hostTimeoutCallback([Now EXCEPT !.timers = @ \ {t}]))

\* the 800 ms delay of suspended processSyncResult call i is over; the calls started
\* earlier have passed theirs
TaskShowSettings(i) ==
    /\ i \in 1..Len(tasks)
    /\ tasks[i].pc = "wait800"
    /\ \A j \in 1..(i - 1) : tasks[j].pc = "wait500"
    /\ Commit([Now EXCEPT !.status = "syncing-settings", !.tasks[i].pc = "wait500"])

\* the 500 ms delay of the oldest suspended processSyncResult call is over
TaskFinish ==
    /\ tasks # <<>>
    /\ tasks[1].pc = "wait500"
    /\ (Len(tasks[1].result.entryConflicts) = 0 /\ ~Truthy(tasks[1].result.settingsConflict))
          => Len(delivered) < MaxDelivered
    /\ Commit(finishSyncResult([Now EXCEPT !.tasks = Tail(@)], tasks[1].result,
                               tasks[1].conn))

Next ==
    \/ StartHosting
    \/ StartScanning
    \/ ConnectToPeer
    \/ AcceptConnection
    \/ RejectConnection
    \/ ResolveEntryConflicts
    \/ ResolveSettingsConflict
    \/ Reset
    \/ \E m \in Managers : PeerOpen(m)
    \/ \E m \in Managers : TransportError(m)
    \/ \E m \in Managers : IncomingConnection(m)
    \/ DataArrives
    \/ \E m \in Managers : DialOpen(m)
    \/ \E m \in Managers : DialError(m)
    \/ \E m \in Managers : DialTimeout(m)
    \/ \E t \in 1..MaxTimers : HostTimeout(t)
    \/ \E i \in 1..MaxData : TaskShowSettings(i)
    \/ TaskFinish

Spec == Init /\ [][Next]_vars

(***************************************************************************)
(* An honest session seen from one device, as host or as initiator: the    *)
(* user starts one session, the peer follows the protocol with a valid     *)
(* payload, the host accepts the connection, and every prompt is answered  *)
(* with a full set of choices.  No transport error, no reset, no reject.   *)
(***************************************************************************)
LiveInit ==
    /\ status = "idle"
    /\ peerId = 0
    /\ error = "null"
    /\ syncResult = <<>>
    /\ pendingConnection = NoConn
    /\ peerManager = 0
    /\ activeConnection = NoConn
    /\ timeoutRef = 0
    /\ remotePayload = <<>>
    /\ connectionAccepted = FALSE
    /\ pendingData = <<>>
    /\ mgr = [m \in 1..MaxSessions |-> NoManager]
    /\ timers = {}
    /\ tasks = <<>>
    /\ sessions = 0
    /\ dataCount = 0
    /\ sent = <<>>
    /\ merges = <<>>
    /\ delivered = <<>>
    /\ limits = [sessions |-> 1, conns |-> 1, data |-> MaxData,
                 payloads |-> {PayloadClean, PayloadEntry, PayloadSettings, PayloadBoth}]
    /\ args = NoArgs
    /\ returned = NoCall

\* the host's user accepts the connection shown
UserAccepts == status = "awaiting-acceptance" /\ AcceptConnection

\* the next message of a peer that runs the same protocol in the other role: an
\* initiator sends its SYNC_REQUEST once connected; a host answers the SYNC_REQUEST it
\* was sent with its SYNC_RESPONSE; either sends SYNC_COMPLETE once it has merged,
\* which is after it received this device's payload
PeerSends ==
    \E m \in Managers, c \in 0..MaxConns :
        \/ /\ mgr[m].role = "host"
           /\ dataCount = 0
           /\ \E p \in limits.payloads : Data(m, c, createSyncRequest(p))
        \/ /\ mgr[m].role = "initiator"
           /\ dataCount = 0
           /\ \E i \in 1..Len(sent) : sent[i].type = "SYNC_REQUEST"
           /\ \E p \in limits.payloads : Data(m, c, createSyncResponse(p))
        \/ /\ dataCount = 1
           /\ mgr[m].role = "host" => \E i \in 1..Len(sent) : sent[i].type = "SYNC_RESPONSE"
           /\ Data(m, c, createSyncComplete)

\* the user answers the entry prompt with a choice for every conflict shown
UserResolvesEntries ==
    /\ status = "entry-conflicts"
    /\ \E resolutions \in ResolutionMaps :
          /\ \A i \in 1..Len(syncResult[1].entryConflicts) :
                syncResult[1].entryConflicts[i].date \in DOMAIN resolutions
          /\ Commit(resolveEntryConflicts(Now, resolutions))

\* the user answers the settings prompt
UserResolvesSettings == status = "settings-conflict" /\ ResolveSettingsConflict

LiveNext ==
    \/ StartHosting
    \/ ConnectToPeer
    \/ \E m \in Managers : PeerOpen(m)
    \/ \E m \in Managers : IncomingConnection(m)
    \/ \E m \in Managers : DialOpen(m)
    \/ \E m \in Managers : DialTimeout(m)
    \/ \E t \in 1..MaxTimers : HostTimeout(t)
    \/ UserAccepts
    \/ PeerSends
    \/ \E i \in 1..MaxData : TaskShowSettings(i)
    \/ TaskFinish
    \/ UserResolvesEntries
    \/ UserResolvesSettings

\* what the event loop, the transport of a successful connect and the premises on the
\* peer and on the user guarantee: an identity being created is created, a connect
\* under way succeeds, a delay that runs ends, a message due is delivered and a prompt
\* shown is answered.  That the host accepts is a premise of the property itself.
LiveFairness ==
    /\ WF_vars(\E m \in Managers : PeerOpen(m))
    /\ WF_vars(\E m \in Managers : IncomingConnection(m))
    /\ WF_vars(\E m \in Managers : DialOpen(m))
    /\ WF_vars(PeerSends)
    /\ WF_vars(\E i \in 1..MaxData : TaskShowSettings(i))
    /\ WF_vars(TaskFinish)
    /\ WF_vars(UserResolvesEntries)
    /\ WF_vars(UserResolvesSettings)

LiveSpec == LiveInit /\ [][LiveNext]_vars /\ LiveFairness

(***************************************************************************)
(* The merge engine called directly: the entry maps of the two devices are *)
(* drawn from all maps over two dates, in either key order, whose entries  *)
(* are worked days, a leave day, an entry without fields and an entry with *)
(* null times and a zero break.                                            *)
(***************************************************************************)
MaxKeys == 2         \* dates per entry map

EntryBlank == DayEntry(Undef, Undef, Undef, Undef)
EntryZero == DayEntry(Null, Null, Num(0), Undef)
EntryValues == {EntryA, EntryB, EntryH, EntryBlank, EntryZero}
EngineDates == {D1, D2}

\* the entry maps with at most MaxKeys dates
EntryMaps ==
    UNION { { Obj([i \in 1..n |-> [k |-> ks[i], v |-> vs[i]]]) :
                 ks \in {q \in [1..n -> EngineDates] :
                            \A i, j \in 1..n : q[i] = q[j] => i = j},
                 vs \in [1..n -> EntryValues] } :
            n \in 0..MaxKeys }

\* two entry maps, for detectConflicts and mergeNonConflicting
EntryArgs == {[kind |-> "entries", local |-> l, remote |-> r] : l, r \in EntryMaps}

\* two payloads that differ in their entries only, for prepareSyncResult
EntryPayloadArgs ==
    {[kind |-> "payloads",
      local |-> SyncPayload(l, Arr(<<Adj1>>), SettingsWeek, Undef, Num(1)),
      remote |-> SyncPayload(r, Arr(<<Adj2>>), SettingsWeek, Undef, Num(2))] :
        l, r \in EntryMaps}

MaxDays == 3         \* working days per list

\* the settings whose workingDays list holds at most MaxDays days out of Monday and
\* Tuesday, in any order and with repetitions, and that differ from SettingsWeek in at
\* most one other field
SettingsValues ==
    UNION { { Settings(Arr(wd), o[1], o[2], o[3], o[4]) :
                 wd \in [1..n -> {Num(1), Num(2)}],
                 o \in { <<Num(450), Num(1), Str("show"), Num(1)>>,
                         <<Num(480), Num(1), Str("show"), Num(1)>>,
                         <<Num(450), Num(0), Str("show"), Num(1)>>,
                         <<Num(450), Num(1), Str("hide"), Num(1)>>,
                         <<Num(450), Num(1), Str("show"), NumHalf(1)>> } } :
            n \in 0..MaxDays }

\* two payloads that differ in their settings only, for prepareSyncResult
SettingsPayloadArgs ==
    {[kind |-> "payloads",
      local |-> SyncPayload(LocalState.entries, Arr(<<Adj1>>), l, Undef, Num(1)),
      remote |-> SyncPayload(LocalState.entries, Arr(<<Adj1>>), r, Undef, Num(2))] :
        l, r \in SettingsValues}

PayloadArgs == EntryPayloadArgs \cup SettingsPayloadArgs

MaxAdjs == 2         \* adjustments per list

D0 == <<"2", "0", "2", "3", "-", "1", "2", "-", "3", "1">>
Adj1Moved == Adjustment(Str("a1"), Text(D2), Num(20), Str("moved"))
Adj3 == Adjustment(Str("a3"), Text(D0), Num(5), Str(""))
AdjustmentValues == {Adj1, Adj2, Adj1Moved, Adj3}

\* the adjustment lists with at most MaxAdjs adjustments, in any order
AdjustmentLists ==
    UNION { {Arr(items) : items \in [1..n -> AdjustmentValues]} : n \in 0..MaxAdjs }

\* two adjustment lists, for mergeAdjustments
AdjustmentArgs ==
    {[kind |-> "adjustments", local |-> l, remote |-> r] : l, r \in AdjustmentLists}

\* a leave balance of 25 days and one of 30 days for the year 2024, or none
LeaveValues ==
    {Undef, LeaveBalance(Num(25), Text(D1), Text(D2)), LeaveBalance(Num(30), Text(D1), Text(D2))}

\* two optional leave balances, for mergeLeaveBalance
LeaveArgs == {[kind |-> "leave", local |-> l, remote |-> r] : l, r \in LeaveValues}

\* the payloads of the two devices of a session: the same entries and settings, and
\* adjustment lists or leave balances of their own
SessionPayloadArgs ==
    {[kind |-> "payloads",
      local |-> SyncPayload(LocalState.entries, l, SettingsWeek, Undef, Num(1)),
      remote |-> SyncPayload(LocalState.entries, r, SettingsWeek, Undef, Num(2))] :
        l, r \in AdjustmentLists}
    \cup
    {[kind |-> "payloads",
      local |-> SyncPayload(LocalState.entries, Arr(<<Adj1>>), SettingsWeek, l, Num(1)),
      remote |-> SyncPayload(LocalState.entries, Arr(<<Adj1>>), SettingsWeek, r, Num(2))] :
        l, r \in LeaveValues}

\* the arguments of one call of the engine
EngineArgs == EntryArgs \cup PayloadArgs \cup AdjustmentArgs \cup LeaveArgs

\* the controller rests, as after construction, with no session allowed
EngineInit ==
    /\ status = "idle"
    /\ peerId = 0
    /\ error = "null"
    /\ syncResult = <<>>
    /\ pendingConnection = NoConn
    /\ peerManager = 0
    /\ activeConnection = NoConn
    /\ timeoutRef = 0
    /\ remotePayload = <<>>
    /\ connectionAccepted = FALSE
    /\ pendingData = <<>>
    /\ mgr = [m \in 1..MaxSessions |-> NoManager]
    /\ timers = {}
    /\ tasks = <<>>
    /\ sessions = 0
    /\ dataCount = 0
    /\ sent = <<>>
    /\ merges = <<>>
    /\ delivered = <<>>
    /\ limits = [sessions |-> 0, conns |-> 0, data |-> 0, payloads |-> {}]
    /\ (args \in EngineArgs \/ args \in SessionPayloadArgs)
    /\ returned = NoCall

Controller ==
    <<status, peerId, error, syncResult, pendingConnection, peerManager,
      activeConnection, timeoutRef, remotePayload, connectionAccepted, pendingData,
      mgr, timers, tasks, sessions, dataCount, sent, merges, delivered, limits>>

\* detectConflicts(local, remote)
CallDetectConflicts ==
    /\ args.kind = "entries"
    /\ returned' = [fn |-> "detectConflicts",
                    value |-> detectConflicts(args.local, args.remote)]
    /\ UNCHANGED <<args, Controller>>

\* mergeNonConflicting(local, remote, detectConflicts(local, remote)), as
\* prepareSyncResult calls it
CallMergeNonConflicting ==
    /\ args.kind = "entries"
    /\ returned' = [fn |-> "mergeNonConflicting",
                    value |-> mergeNonConflicting(args.local, args.remote,
                                  detectConflicts(args.local, args.remote))]
    /\ UNCHANGED <<args, Controller>>

\* prepareSyncResult(localPayload, remotePayload)
CallPrepareSyncResult ==
    /\ args.kind = "payloads"
    /\ returned' = [fn |-> "prepareSyncResult",
                    value |-> prepareSyncResult(args.local, args.remote)]
    /\ UNCHANGED <<args, Controller>>

\* mergeAdjustments(local, remote)
CallMergeAdjustments ==
    /\ args.kind = "adjustments"
    /\ returned' = [fn |-> "mergeAdjustments",
                    value |-> mergeAdjustments(args.local, args.remote)]
    /\ UNCHANGED <<args, Controller>>

\* mergeLeaveBalance(local, remote)
CallMergeLeaveBalance ==
    /\ args.kind = "leave"
    /\ returned' = [fn |-> "mergeLeaveBalance",
                    value |-> mergeLeaveBalance(args.local, args.remote)]
    /\ UNCHANGED <<args, Controller>>

EngineNext ==
    \/ CallDetectConflicts
    \/ CallMergeNonConflicting
    \/ CallPrepareSyncResult
    \/ CallMergeAdjustments
    \/ CallMergeLeaveBalance

EngineSpec == EngineInit /\ [][EngineNext]_vars

(***************************************************************************)
(* The codec called directly: validateSyncPayload on payloads whose entry  *)
(* keys, settings or sizes a hostile or corrupted peer may have chosen.    *)
(***************************************************************************)
\* the i-th day of a calendar of twelve 28-day months from 2000-01-01 on, as YYYY-MM-DD
DateKey(i) ==
    LET TwoDigits(n) == <<DigitChars[(n \div 10) + 1], DigitChars[(n % 10) + 1]>>
    IN  <<"2", "0">> \o TwoDigits(i \div 336) \o <<"-">>
          \o TwoDigits(((i % 336) \div 28) + 1) \o <<"-">> \o TwoDigits((i % 28) + 1)

\* a well-formed payload with n entries on n different days and m adjustments with m
\* different ids
SizedPayload(n, m) ==
    SyncPayload(Obj([i \in 1..n |-> [k |-> DateKey(i), v |-> EntryA]]),
                Arr([i \in 1..m |-> Adjustment(Text(DateKey(i)), Text(D1), Num(15), Str(""))]),
                SettingsWeek, Undef, Num(1))

\* the keys of an inbound entries map: two dates, a well-formed key that is no calendar
\* date, keys that are not of the form YYYY-MM-DD, the empty key and the reserved names
KeyValues ==
    {D1, D2,
     <<"2", "0", "2", "4", "-", "1", "3", "-", "4", "5">>,
     <<"2", "0", "2", "4", "-", "1", "-", "1", "0">>,
     <<"2", "0", "2", "4", "/", "0", "1", "/", "1", "0">>,
     <<"2", "0", "2", "4", "-", "0", "1", "-", "1", "x">>,
     <<>>}
      \cup BLOCKED_KEYS

\* the settings of an inbound payload: every combination of the values below
SettingsInputs ==
    { Settings(wd, Num(450), ws, disp, rate) :
         wd \in {Arr(<<>>), Arr(<<Num(0), Num(6)>>), Arr(<<Num(1), NumHalf(2)>>),
                 Arr(<<Num(1), Num(7)>>), Arr(<<Num(-1)>>), Arr(<<Num(1), Str("2")>>),
                 Arr(<<NumHalf(6)>>), Str("all")},
         ws \in {Num(0), Num(1), Num(2), NumHalf(0), Str("1")},
         disp \in {Str("show"), Str("disable"), Str("hide"), Str("sometimes"), Str(""),
                   Num(1), Undef},
         rate \in {Num(1), NumHalf(1), Str("1"), Null, Undef} }

\* one payload to validate: entries with at most MaxKeys of the keys, or any of the
\* settings, or the well-formed payload of a size at or just above the two limits,
\* which is given by its numbers of entries and of adjustments
CodecArgs ==
    {[kind |-> "sized", entries |-> n, adjustments |-> m] :
        n \in {MAX_ENTRIES, MAX_ENTRIES + 1},
        m \in {MAX_ADJUSTMENTS, MAX_ADJUSTMENTS + 1}}
      \cup
    {[kind |-> "payload", payload |-> p] :
        p \in UNION { { SyncPayload(Obj([i \in 1..n |-> [k |-> ks[i], v |-> EntryA]]),
                                    Arr(<<Adj2>>), SettingsWeek, Undef, Num(1)) :
                          ks \in {q \in [1..n -> KeyValues] :
                                     \A i, j \in 1..n : q[i] = q[j] => i = j} } :
                      n \in 0..MaxKeys }
              \cup { SyncPayload(Obj(<<[k |-> D1, v |-> EntryA]>>), Arr(<<Adj2>>), st, Undef,
                                 Num(1)) : st \in SettingsInputs } }

\* the payload that args stands for
ArgPayload ==
    IF args.kind = "sized" THEN SizedPayload(args.entries, args.adjustments)
    ELSE args.payload

\* the controller rests, as after construction, with no session allowed
CodecInit ==
    /\ status = "idle"
    /\ peerId = 0
    /\ error = "null"
    /\ syncResult = <<>>
    /\ pendingConnection = NoConn
    /\ peerManager = 0
    /\ activeConnection = NoConn
    /\ timeoutRef = 0
    /\ remotePayload = <<>>
    /\ connectionAccepted = FALSE
    /\ pendingData = <<>>
    /\ mgr = [m \in 1..MaxSessions |-> NoManager]
    /\ timers = {}
    /\ tasks = <<>>
    /\ sessions = 0
    /\ dataCount = 0
    /\ sent = <<>>
    /\ merges = <<>>
    /\ delivered = <<>>
    /\ limits = [sessions |-> 0, conns |-> 0, data |-> 0, payloads |-> {}]
    /\ args \in CodecArgs
    /\ returned = NoCall

\* validateSyncPayload(payload)
CallValidateSyncPayload ==
    /\ args.kind \in {"payload", "sized"}
    /\ returned' = [fn |-> "validateSyncPayload",
                    value |-> validateSyncPayload(ArgPayload)]
    /\ UNCHANGED <<args, Controller>>

CodecSpec == CodecInit /\ [][CallValidateSyncPayload]_vars

(***************************************************************************)
(* Properties of the session controller.                                   *)
(***************************************************************************)
\* this step hands a state to onMerge
Delivers == Len(delivered') > Len(delivered)

\* the message passes isSyncMessage and its payload passes validateSyncPayload
ValidMessage(data) == isSyncMessage(data) /\ validateSyncPayload(data.payload)

\* the dates of the entry conflicts of a comparison
ConflictDates(result) == {result.entryConflicts[i].date : i \in 1..Len(result.entryConflicts)}

\* this step handles a data event
DataStep == dataCount' = dataCount + 1

\* every data event the peer of a session of this run may cause
DataEvents ==
    UNION {{[m |-> m, c |-> c, data |-> data] :
               data \in Inbound(mgr[m].role, limits.payloads)} :
           m \in Managers, c \in 0..MaxConns}

\* C1: onMerge is invoked only when every detected entry conflict has an explicit
\* choice: a call of resolveSettingsConflict hands a state to onMerge only when no
\* entry conflict of the comparison is pending, and a call of resolveEntryConflicts
\* hands over a state that has an entry for every conflict that was pending.
C1_MergeOnlyAfterEveryChoice ==
    [][ /\ (ResolveSettingsConflict /\ Delivers)
              => syncResult[1].entryConflicts = <<>>
        /\ (ResolveEntryConflicts /\ Delivers)
              => \A date \in ConflictDates(syncResult[1]) :
                    \E i \in 1..Len(ObjectKeys(delivered'[Len(delivered')].entries)) :
                        ObjectKeys(delivered'[Len(delivered')].entries)[i] = date ]_vars

\* C2: whenever status is complete, onMerge has been invoked at least once since the
\* session was started.
C2_CompleteImpliesMerged == status = "complete" => Len(delivered) >= 1

\* C3: within one session onMerge is invoked at most once.
C3_AtMostOneMergePerSession == Len(delivered) <= 1

\* C4: every payload prepareSyncResult was called with passes validateSyncPayload, and
\* a data event or a replayed buffered message whose message fails isSyncMessage or
\* validateSyncPayload causes no merge, no onMerge and sends nothing, on the host and
\* on the initiator.
C4_OnlyValidatedPayloadsMerged ==
    [][ /\ \A i \in 1..Len(merges') : validateSyncPayload(merges'[i])
        /\ DataStep =>
              \A e \in DataEvents :
                 (Data(e.m, e.c, e.data) /\ ~ValidMessage(e.data))
                    => UNCHANGED <<merges, delivered, sent, tasks>>
        /\ (AcceptConnection /\ pendingData # <<>> /\ ~ValidMessage(pendingData[1].data))
              => UNCHANGED <<merges, delivered, sent, tasks>> ]_vars

\* a validated SYNC_REQUEST was merged and answered with the SYNC_RESPONSE
C4_Witness ==
    /\ Len(merges) = 1
    /\ remotePayload = <<merges[1]>>
    /\ validateSyncPayload(merges[1])
    /\ \E i \in 1..Len(sent) : sent[i].type = "SYNC_RESPONSE"

\* C5: an inbound SYNC_REQUEST on the accepted host, or SYNC_RESPONSE on the initiator,
\* whose payload fails validateSyncPayload moves the session to status error with a
\* non-null reason.
C5_InvalidPayloadIsAnError ==
    [][ DataStep => \A e \in DataEvents :
           ( /\ Data(e.m, e.c, e.data)
             /\ isSyncMessage(e.data)
             /\ ~validateSyncPayload(e.data.payload)
             /\ \/ mgr[e.m].role = "host" /\ connectionAccepted
                                          /\ e.data.type = "SYNC_REQUEST"
                \/ mgr[e.m].role = "initiator" /\ e.data.type = "SYNC_RESPONSE" )
           => (status' = "error" /\ error' # "null") ]_vars

\* C6: on the host, while acceptConnection has not been called in the session, an
\* inbound SYNC_REQUEST is stored in the single-slot buffer and changes nothing else:
\* no merge, no message sent, no onMerge, no status change.
C6_UnacceptedRequestOnlyBuffered ==
    [][ DataStep => \A e \in DataEvents :
           ( /\ Data(e.m, e.c, e.data)
             /\ mgr[e.m].role = "host"
             /\ ~connectionAccepted
             /\ isSyncMessage(e.data)
             /\ e.data.type = "SYNC_REQUEST" )
           => /\ pendingData' = <<[data |-> e.data, conn |-> Conn(e.m, e.c)]>>
              /\ UNCHANGED <<status, peerId, error, syncResult, pendingConnection,
                             peerManager, activeConnection, timeoutRef, remotePayload,
                             connectionAccepted, mgr, timers, tasks, sessions, sent,
                             merges, delivered>> ]_vars

\* a SYNC_REQUEST sits in the buffer of a host that has not accepted
C6_Witness ==
    /\ status = "awaiting-acceptance"
    /\ ~connectionAccepted
    /\ pendingData # <<>>
    /\ pendingData[1].data.type = "SYNC_REQUEST"
    /\ pendingData[1].conn = pendingConnection
    /\ merges = <<>> /\ sent = <<>> /\ delivered = <<>> /\ tasks = <<>>

\* C7: a valid SYNC_REQUEST buffered from the pending connection is never dropped:
\* while the connection stays pending the request stays in the buffer whatever else
\* happens, and acceptConnection processes it in its step (SYNC_RESPONSE sent, merge
\* run, once) and leaves the buffer empty.
C7_BufferedRequestNeverDropped ==
    [][ ( /\ pendingData # <<>>
          /\ pendingData[1].data.type = "SYNC_REQUEST"
          /\ ValidMessage(pendingData[1].data)
          /\ pendingConnection # NoConn
          /\ pendingData[1].conn = pendingConnection
          /\ ~connectionAccepted
          /\ peerManager # 0 )
        => \/ /\ AcceptConnection
              /\ pendingData' = <<>>
              /\ merges' = Append(merges, pendingData[1].data.payload)
              /\ sent' = Append(sent, [type |-> "SYNC_RESPONSE", conn |-> pendingConnection,
                                       own |-> TRUE])
           \/ /\ ~connectionAccepted'
              /\ (peerManager' = peerManager /\ pendingConnection' = pendingConnection)
                    => pendingData' = pendingData ]_vars

\* C8: a hosting session that has its identity has its 120-second timeout armed, armed
\* when the identity was created; when a 120-second timeout fires, status becomes
\* error with the timeout reason, the transport manager is destroyed and every
\* session ref is cleared.
C8_HostTimeoutTearsDown ==
    [][ /\ (status' = "hosting" /\ peerId' # 0) => timeoutRef' \in timers'
        /\ \A m \in Managers :
              (PeerOpen(m) /\ mgr[m].role = "host")
                 => (peerId' = m /\ timeoutRef' \in timers' \ timers)
        /\ \A t \in 1..MaxTimers :
              HostTimeout(t)
                 => /\ status' = "error"
                    /\ error' = TIMEOUT_REASON
                    /\ t \notin timers'
                    /\ peerManager' = 0
                    /\ \A m \in Managers : mgr'[m].st # "live"
                    /\ activeConnection' = NoConn
                    /\ remotePayload' = <<>>
                    /\ ~connectionAccepted'
                    /\ pendingData' = <<>>
                    /\ timeoutRef' = 0 ]_vars

\* the timeout of a hosting session has fired: the manager that had an identity is
\* destroyed and the session is in error with the timeout reason
C8_Witness ==
    /\ status = "error"
    /\ error = TIMEOUT_REASON
    /\ peerId # 0
    /\ mgr[peerId].role = "host"
    /\ mgr[peerId].st = "destroyed"
    /\ peerManager = 0
    /\ timeoutRef = 0
    /\ timers = {}
    /\ pendingConnection = NoConn

\* C9: rejectConnection called in awaiting-acceptance closes the pending connection,
\* sets status to hosting with pendingConnection null and arms exactly one new
\* 120-second timeout, held by timeoutRef; when an armed timeout fires the session
\* reaches error with the timeout reason.
C9_RejectRearmsTimeout ==
    [][ /\ (RejectConnection /\ status = "awaiting-acceptance")
              => /\ pendingConnection # NoConn
                 /\ ConnOpen(Now, pendingConnection)
                 /\ pendingConnection.c \notin mgr'[pendingConnection.m].conns
                 /\ status' = "hosting"
                 /\ pendingConnection' = NoConn
                 /\ timeoutRef' \notin timers
                 /\ timers' = timers \cup {timeoutRef'}
                 /\ peerManager' = peerManager
        /\ \A t \in 1..MaxTimers :
              (HostTimeout(t) /\ status = "hosting")
                 => (status' = "error" /\ error' = TIMEOUT_REASON) ]_vars

\* a pending connection was rejected: the host is hosting again, the connection it
\* received is closed and the timeout is armed
C9_Witness ==
    /\ status = "hosting"
    /\ peerId # 0
    /\ peerManager = peerId
    /\ pendingConnection = NoConn
    /\ mgr[peerManager].used = 1
    /\ mgr[peerManager].conns = {}
    /\ timers = {timeoutRef}

\* C10: reset called in any status leaves status idle, peerId, error, syncResult and
\* pendingConnection null, the buffer empty, connectionAccepted false, no 120-second
\* timeout armed and no live transport manager.
C10_ResetLeavesNothingBehind ==
    [][ Reset =>
           /\ status' = "idle"
           /\ peerId' = 0
           /\ error' = "null"
           /\ syncResult' = <<>>
           /\ pendingConnection' = NoConn
           /\ pendingData' = <<>>
           /\ ~connectionAccepted'
           /\ timeoutRef' = 0
           /\ timers' = {}
           /\ peerManager' = 0
           /\ \A m \in Managers : mgr'[m].st # "live" ]_vars

\* a step of the environment: an event of the transport, a timer that fires, or a
\* suspended processSyncResult call that goes on
EnvironmentStep ==
    \/ \E m \in Managers : PeerOpen(m)
    \/ \E m \in Managers : TransportError(m)
    \/ \E m \in Managers : IncomingConnection(m)
    \/ DataArrives
    \/ \E m \in Managers : DialOpen(m)
    \/ \E m \in Managers : DialError(m)
    \/ \E m \in Managers : DialTimeout(m)
    \/ \E t \in 1..MaxTimers : HostTimeout(t)
    \/ \E i \in 1..MaxData : TaskShowSettings(i)
    \/ TaskFinish

\* C11: once status is error it stays error until the user acts: no transport event,
\* no timer and no continuation of processSyncResult changes status away from error.
C11_ErrorStaysUntilReset ==
    [][ (status = "error" /\ status' # "error") => ~EnvironmentStep ]_vars

\* C12: when a transport error or a timeout moves the controller to error, the pending
\* connection, the buffered message, the remote payload, the sync result and the
\* armed timeout of the session are discarded, and while status is error no step
\* hands a state to onMerge.
C12_ErrorDiscardsSessionState ==
    [][ /\ ( /\ status' = "error"
             /\ \/ \E m \in Managers : TransportError(m)
                \/ \E t \in 1..MaxTimers : HostTimeout(t) )
           => /\ pendingConnection' = NoConn
              /\ pendingData' = <<>>
              /\ remotePayload' = <<>>
              /\ syncResult' = <<>>
              /\ timeoutRef' \notin timers'
        /\ status = "error" => ~Delivers ]_vars

\* C13: resolveEntryConflicts called in entry-conflicts with choices for a strict
\* subset of the pending conflict dates leaves the conflicts without a choice in
\* syncResult.entryConflicts, leaves status entry-conflicts and does not invoke onMerge.
C13_PartialChoicesKeepConflicts ==
    [][ \A resolutions \in ResolutionMaps :
           ( /\ status = "entry-conflicts"
             /\ DOMAIN resolutions # ConflictDates(syncResult[1])
             /\ Commit(resolveEntryConflicts(Now, resolutions)) )
           => /\ status' = "entry-conflicts"
              /\ ~Delivers
              /\ ConflictDates(syncResult'[1])
                    = ConflictDates(syncResult[1]) \ DOMAIN resolutions ]_vars

\* C14: resolveEntryConflicts given a choice for every pending conflict date leaves
\* syncResult with entryConflicts empty and, for each conflict date, with the chosen
\* side's entry in mergedEntries (the local entry for "local", the remote entry for
\* "remote"); the merged entries of the other dates are unchanged and no other date
\* is added.
C14_FullChoicesResolveEntries ==
    [][ ( /\ syncResult # <<>>
          /\ syncResult' # syncResult )
        => \A resolutions \in ResolutionMaps :
              ( /\ syncResult[1].entryConflicts # <<>>
                /\ DOMAIN resolutions = ConflictDates(syncResult[1])
                /\ Commit(resolveEntryConflicts(Now, resolutions)) )
              => LET old == syncResult[1]
                     new == syncResult'[1]
                 IN  /\ new.entryConflicts = <<>>
                     /\ \A i \in 1..Len(old.entryConflicts) :
                           Get(new.mergedEntries, old.entryConflicts[i].date)
                              = IF resolutions[old.entryConflicts[i].date] = "local"
                                THEN old.entryConflicts[i].local
                                ELSE old.entryConflicts[i].remote
                     /\ \A date \in RangeOf(ObjectKeys(old.mergedEntries)) :
                           Get(new.mergedEntries, date) = Get(old.mergedEntries, date)
                     /\ RangeOf(ObjectKeys(new.mergedEntries))
                           = RangeOf(ObjectKeys(old.mergedEntries)) \cup ConflictDates(old) ]_vars

\* both conflicts of PayloadEntry were resolved, 2024-01-10 with the remote entry and
\* 2024-01-11 with the local one, and the merged state was delivered
C14_Witness ==
    /\ syncResult # <<>>
    /\ merges = <<PayloadEntry>>
    /\ syncResult[1].entryConflicts = <<>>
    /\ Get(syncResult[1].mergedEntries, D1) = EntryB
    /\ Get(syncResult[1].mergedEntries, D2) = EntryA
    /\ status = "complete"
    /\ Len(delivered) = 1
    /\ delivered[1].entries = syncResult[1].mergedEntries

\* C15: resolveSettingsConflict(choice) with a pending settings conflict hands to
\* onMerge the chosen side's settings (the local side of the conflict, which is this
\* device's settings, for "local", its remote side for "remote") with the merged
\* entries, adjustments and leave balance of syncResult,
\* sends SYNC_COMPLETE on the active connection when it is open, clears
\* settingsConflict and sets status complete.
C15_SettingsChoiceDelivers ==
    [][ ( /\ syncResult # <<>>
          /\ syncResult' # syncResult
          /\ Truthy(syncResult[1].settingsConflict) )
        => \A choice \in {"local", "remote"} :
              Commit(resolveSettingsConflict(Now, choice))
              => LET old == syncResult[1]
                     chosen == IF choice = "local" THEN old.settingsConflict.local
                               ELSE old.settingsConflict.remote
                 IN  /\ old.settingsConflict.local = LocalState.settings
                     /\ delivered' = Append(delivered,
                                            [entries |-> old.mergedEntries,
                                             adjustments |-> old.mergedAdjustments,
                                             settings |-> chosen,
                                             leaveBalance |-> old.mergedLeaveBalance])
                     /\ syncResult' = <<[old EXCEPT !.mergedSettings = chosen,
                                                    !.settingsConflict = Null]>>
                     /\ status' = "complete"
                     /\ sent' = IF ConnOpen(Now, activeConnection) /\ peerManager # 0
                                THEN Append(sent, [type |-> "SYNC_COMPLETE",
                                                   conn |-> activeConnection,
                                                   own |-> FALSE])
                                ELSE sent ]_vars

\* the settings conflict of PayloadSettings was resolved with the peer's settings:
\* they were delivered and SYNC_COMPLETE was sent on the active connection
C15_Witness ==
    /\ status = "complete"
    /\ merges = <<PayloadSettings>>
    /\ syncResult # <<>>
    /\ syncResult[1].settingsConflict = Null
    /\ syncResult[1].mergedSettings = SettingsAll
    /\ Len(delivered) = 1
    /\ delivered[1].settings = SettingsAll
    /\ \E i \in 1..Len(sent) :
          sent[i].type = "SYNC_COMPLETE" /\ sent[i].conn = activeConnection

\* C16: every merge result is handed to processSyncResult, which after its delays
\* dispatches in this order: with entry conflicts it halts at entry-conflicts, hands
\* nothing to onMerge and sends nothing; else with a settings conflict it halts at
\* settings-conflict likewise; else it hands the merged entries, adjustments,
\* settings and leave balance to onMerge, sends SYNC_COMPLETE on the connection of
\* the message when it is open, and sets status complete.
C16_DispatchOrder ==
    [][ /\ Len(merges') > Len(merges)
           => /\ Len(tasks') = Len(tasks) + 1
              /\ tasks'[Len(tasks')].pc = "wait800"
              /\ tasks'[Len(tasks')].result
                    = prepareSyncResult(createLocalPayload, merges'[Len(merges')])
              /\ syncResult' = <<tasks'[Len(tasks')].result>>
        /\ (tasks # <<>> /\ tasks' = Tail(tasks) /\ TaskFinish)
           => LET result == tasks[1].result
                  conn == tasks[1].conn
              IN  IF result.entryConflicts # <<>>
                  THEN status' = "entry-conflicts" /\ UNCHANGED <<delivered, sent>>
                  ELSE IF result.settingsConflict # Null
                  THEN status' = "settings-conflict" /\ UNCHANGED <<delivered, sent>>
                  ELSE /\ delivered' = Append(delivered,
                                              [entries |-> result.mergedEntries,
                                               adjustments |-> result.mergedAdjustments,
                                               settings |-> result.mergedSettings,
                                               leaveBalance |-> result.mergedLeaveBalance])
                       /\ status' = "complete"
                       /\ sent' = IF ConnOpen(Now, conn) /\ peerManager # 0
                                  THEN Append(sent, [type |-> "SYNC_COMPLETE",
                                                     conn |-> conn, own |-> FALSE])
                                  ELSE sent ]_vars

\* the result of merging PayloadBoth, which has an entry conflict and a settings
\* conflict, was dispatched: the controller halted at entry-conflicts
C16_Witness ==
    /\ status = "entry-conflicts"
    /\ merges = <<PayloadBoth>>
    /\ tasks = <<>>
    /\ syncResult = <<prepareSyncResult(createLocalPayload, PayloadBoth)>>
    /\ delivered = <<>>
    /\ \A i \in 1..Len(sent) : sent[i].type # "SYNC_COMPLETE"

\* the statuses in which the controller waits for the sync to end
WaitingStatuses ==
    {"syncing-entries", "syncing-settings", "entry-conflicts", "settings-conflict"}

RequestsSent(log) == {i \in 1..Len(log) : log[i].type = "SYNC_REQUEST"}

\* C18: connectToPeer sets status connecting; when the connect succeeds, status
\* becomes syncing-entries and exactly one SYNC_REQUEST carrying the local payload is
\* sent, on the new connection; when the connect fails, or its 10-second timer fires
\* before the connection is open, status becomes error with a reason and no
\* SYNC_REQUEST is sent; a SYNC_REQUEST is sent by no other step.
C18_ConnectToPeerOutcomes ==
    [][ /\ ConnectToPeer
           => /\ status' = "connecting"
              /\ error' = "null"
              /\ sent' = <<>>
              /\ peerManager' # 0
              /\ mgr'[peerManager'].role = "initiator"
        /\ \A m \in Managers :
              /\ DialOpen(m)
                 => /\ status' = "syncing-entries"
                    /\ activeConnection' = Conn(m, 0)
                    /\ sent' = <<[type |-> "SYNC_REQUEST", conn |-> Conn(m, 0),
                                  own |-> TRUE]>>
              /\ ( \/ DialError(m)
                   \/ /\ DialTimeout(m)
                      /\ mgr[m].promise = "pending"
                      /\ ~ConnOpen(Now, Conn(m, 0))
                   \/ /\ TransportError(m)
                      /\ mgr[m].role = "initiator"
                      /\ mgr[m].promise = "pending"
                      /\ ~mgr[m].peerOpen )
                 => /\ status' = "error"
                    /\ error' # "null"
                    /\ mgr'[m].promise = "rejected"
                    /\ sent' = sent
        /\ RequestsSent(sent') # RequestsSent(sent)
           => (sent' = <<>> \/ \E m \in Managers : DialOpen(m)) ]_vars

\* the connect succeeded: status is syncing-entries and the one message sent is the
\* SYNC_REQUEST with the local payload on the dialled connection
C18_Witness ==
    /\ status = "syncing-entries"
    /\ peerManager # 0
    /\ mgr[peerManager].role = "initiator"
    /\ mgr[peerManager].promise = "resolved"
    /\ activeConnection = Conn(peerManager, 0)
    /\ sent = <<[type |-> "SYNC_REQUEST", conn |-> activeConnection, own |-> TRUE]>>
    /\ dataCount = 0

(***************************************************************************)
(* Properties of the merge engine.                                         *)
(***************************************************************************)
\* C19: detectConflicts is symmetric: detectConflicts(A, B) and detectConflicts(B, A)
\* have the same conflict dates, each once, and each conflict of one is the conflict
\* of the other with its local and remote entries swapped.
C19_DetectConflictsSymmetric ==
    returned.fn = "detectConflicts"
    => LET ab == returned.value
           ba == detectConflicts(args.remote, args.local)
       IN  /\ Len(ab) = Len(ba)
           /\ {ab[i].date : i \in 1..Len(ab)} = {ba[i].date : i \in 1..Len(ba)}
           /\ Cardinality({ab[i].date : i \in 1..Len(ab)}) = Len(ab)
           /\ \A i \in 1..Len(ab) :
                 \E j \in 1..Len(ba) :
                    ba[j] = [date |-> ab[i].date, local |-> ab[i].remote,
                             remote |-> ab[i].local]

\* the two maps conflict on both dates and list them in opposite orders, so that the
\* two calls return the conflicts in different orders
C19_Witness ==
    /\ returned.fn = "detectConflicts"
    /\ Len(returned.value) = 2
    /\ returned.value[1].date = D1
    /\ detectConflicts(args.remote, args.local)[1].date = D2

\* the entry has no field set: each is absent, null, empty or zero
NoFieldSet(entry) ==
    /\ entry.startTime \in {Undef, Null, Text(<<>>)}
    /\ entry.endTime \in {Undef, Null, Text(<<>>)}
    /\ entry.breakMinutes \in {Undef, Null, Num(0)}
    /\ entry.dayType \in {Undef, Null, Str("")}

\* the side has no entry for the date, or one with no field set
EmptyOn(entries, date) ==
    \/ date \notin RangeOf(ObjectKeys(entries))
    \/ NoFieldSet(Get(entries, date))

\* C20: for every date on which exactly one side's entry is empty (absent, or with no
\* field set) the merged entries hold the other side's entry for that date and the
\* date is not a conflict, whichever side is local.
C20_OneSidedEntryKept ==
    returned.fn = "mergeNonConflicting"
    => \A date \in EngineDates :
          /\ (EmptyOn(args.local, date) /\ ~EmptyOn(args.remote, date))
             => /\ Get(returned.value, date) = Get(args.remote, date)
                /\ \A i \in 1..Len(detectConflicts(args.local, args.remote)) :
                      detectConflicts(args.local, args.remote)[i].date # date
          /\ (~EmptyOn(args.local, date) /\ EmptyOn(args.remote, date))
             => /\ Get(returned.value, date) = Get(args.local, date)
                /\ \A i \in 1..Len(detectConflicts(args.local, args.remote)) :
                      detectConflicts(args.local, args.remote)[i].date # date

\* the local map has no entry for 2024-01-10 and an entry without fields for
\* 2024-01-11, the remote map has a worked day on both: the merge holds both
C20_Witness ==
    /\ returned.fn = "mergeNonConflicting"
    /\ args.local = Obj(<<[k |-> D2, v |-> EntryBlank]>>)
    /\ args.remote = Obj(<<[k |-> D1, v |-> EntryB], [k |-> D2, v |-> EntryA]>>)
    /\ Get(returned.value, D1) = EntryB
    /\ Get(returned.value, D2) = EntryA

\* the four fields of a day entry
EntryFields == {"startTime", "endTime", "breakMinutes", "dayType"}

\* both sides hold a non-empty entry for the date
BothSet(local, remote, date) == ~EmptyOn(local, date) /\ ~EmptyOn(remote, date)

\* the two sides' entries for the date agree on each of the four fields
FieldwiseEqual(local, remote, date) ==
    \A f \in EntryFields : Get(local, date)[f] = Get(remote, date)[f]

\* C21: for every date on which both sides hold non-empty entries that are equal field
\* by field, the merged entries of prepareSyncResult hold that entry and entryConflicts
\* does not list the date; entryConflicts holds exactly one ConflictEntry, with the two
\* sides' entries, for each date on which both sides are non-empty and not equal field
\* by field, and none for any other date.
C21_EqualEntriesMergeConflictsExact ==
    returned.fn = "prepareSyncResult"
    => LET local == args.local.entries
           remote == args.remote.entries
           conflicts == returned.value.entryConflicts
       IN  /\ \A date \in EngineDates :
                 LET listed == {i \in 1..Len(conflicts) : conflicts[i].date = date}
                 IN  /\ (BothSet(local, remote, date) /\ FieldwiseEqual(local, remote, date))
                        => /\ Get(returned.value.mergedEntries, date) = Get(local, date)
                           /\ Get(returned.value.mergedEntries, date) = Get(remote, date)
                           /\ listed = {}
                     /\ (BothSet(local, remote, date) /\ ~FieldwiseEqual(local, remote, date))
                        => /\ Cardinality(listed) = 1
                           /\ \A i \in listed :
                                 conflicts[i] = [date |-> date, local |-> Get(local, date),
                                                 remote |-> Get(remote, date)]
                     /\ ~BothSet(local, remote, date) => listed = {}
           /\ \A i \in 1..Len(conflicts) : conflicts[i].date \in EngineDates

\* both sides hold the same worked day on 2024-01-10, and worked days that differ in
\* the break on 2024-01-11: the first is merged, the second is the one conflict
C21_Witness ==
    /\ returned.fn = "prepareSyncResult"
    /\ args.local.entries = Obj(<<[k |-> D1, v |-> EntryA], [k |-> D2, v |-> EntryA]>>)
    /\ args.remote.entries = Obj(<<[k |-> D2, v |-> EntryB], [k |-> D1, v |-> EntryA]>>)
    /\ returned.value.mergedEntries = Obj(<<[k |-> D1, v |-> EntryA]>>)
    /\ returned.value.entryConflicts = <<[date |-> D2, local |-> EntryA, remote |-> EntryB]>>

\* C22: for every pair of payloads the keys of mergedEntries are distinct and are
\* exactly the dates on which at least one side is non-empty and which entryConflicts
\* does not list: no conflict date is a merged date, and a date empty on both sides
\* is not in the result.
C22_MergedKeysExact ==
    returned.fn = "prepareSyncResult"
    => LET local == args.local.entries
           remote == args.remote.entries
           conflicts == returned.value.entryConflicts
           keys == ObjectKeys(returned.value.mergedEntries)
           conflictDates == {conflicts[i].date : i \in 1..Len(conflicts)}
       IN  /\ RangeOf(keys) = {date \in EngineDates :
                                 /\ ~EmptyOn(local, date) \/ ~EmptyOn(remote, date)
                                 /\ date \notin conflictDates}
           /\ Cardinality(RangeOf(keys)) = Len(keys)
           /\ RangeOf(keys) \cap conflictDates = {}

\* 2024-01-10 is a conflict, 2024-01-11 is empty on both sides (an entry without
\* fields against null times and a zero break): nothing is merged
C22_Witness ==
    /\ returned.fn = "prepareSyncResult"
    /\ args.local.entries = Obj(<<[k |-> D1, v |-> EntryA], [k |-> D2, v |-> EntryBlank]>>)
    /\ args.remote.entries = Obj(<<[k |-> D1, v |-> EntryH], [k |-> D2, v |-> EntryZero]>>)
    /\ Len(returned.value.entryConflicts) = 1
    /\ returned.value.mergedEntries = Obj(<<>>)

\* the ids of a sequence of adjustments
IdsOf(adjs) == {adjs[i].id : i \in 1..Len(adjs)}

\* the calendar date a is not after b: year, then month, then day, which for
\* YYYY-MM-DD strings is the order of the digit sequences
RECURSIVE DigitsLe(_, _)
DigitsLe(a, b) ==
    IF a = <<>> \/ b = <<>> THEN a = <<>>
    ELSE IF Head(a) = "-" \/ Head(a) = Head(b) THEN DigitsLe(Tail(a), Tail(b))
    ELSE DigitVal(Head(a)) < DigitVal(Head(b))

\* C23: mergeAdjustments(local, remote) returns exactly one adjustment for each id
\* that occurs on either side and no other; for an id that occurs in local it is a
\* local adjustment, otherwise the remote one; the result is in ascending order of
\* date; and merging a list with itself returns one adjustment per id of the list,
\* each of them from the list.
C23_AdjustmentsUnionById ==
    returned.fn = "mergeAdjustments"
    => LET local == args.local.items
           remote == args.remote.items
           result == returned.value.items
       IN  /\ IdsOf(result) = IdsOf(local) \cup IdsOf(remote)
           /\ Len(result) = Cardinality(IdsOf(local) \cup IdsOf(remote))
           /\ \A i \in 1..Len(result) :
                 IF result[i].id \in IdsOf(local)
                 THEN result[i] \in RangeOf(local)
                 ELSE result[i] \in RangeOf(remote)
           /\ \A i, j \in 1..Len(result) :
                 i < j => DigitsLe(result[i].date.cs, result[j].date.cs)
           /\ local = remote
              => /\ Len(result) = Cardinality(IdsOf(local))
                 /\ RangeOf(result) \subseteq RangeOf(local)

\* the id a1 is on both sides with different dates and minutes, a2 is local only and
\* a3 remote only: the local a1 is kept, and the result runs from 2023-12-31 to
\* 2024-01-11 although neither list was in that order
C23_Witness ==
    /\ returned.fn = "mergeAdjustments"
    /\ args.local = Arr(<<Adj2, Adj1>>)
    /\ args.remote = Arr(<<Adj1Moved, Adj3>>)
    /\ returned.value = Arr(<<Adj3, Adj1, Adj2>>)

\* the two settings have the same set of working days and are identical in the other
\* four fields
SameSettings(local, remote) ==
    /\ RangeOf(local.workingDays.items) = RangeOf(remote.workingDays.items)
    /\ local.expectedMinutesPerDay = remote.expectedMinutesPerDay
    /\ local.weekStartsOn = remote.weekStartsOn
    /\ local.nonWorkingDayDisplay = remote.nonWorkingDayDisplay
    /\ local.nonWorkingDayRate = remote.nonWorkingDayRate

\* C24: prepareSyncResult yields settingsConflict = null exactly when the local and the
\* remote settings have the same set of workingDays, whatever the order and the
\* repetitions in the two lists, and identical expectedMinutesPerDay, weekStartsOn,
\* nonWorkingDayDisplay and nonWorkingDayRate; otherwise settingsConflict carries the
\* two settings unchanged, and mergedSettings is the local settings in both cases.
C24_SettingsConflictExact ==
    returned.fn = "prepareSyncResult"
    => LET local == args.local.settings
           remote == args.remote.settings
       IN  /\ (returned.value.settingsConflict = Null) <=> SameSettings(local, remote)
           /\ returned.value.settingsConflict # Null
              => /\ returned.value.settingsConflict.local = local
                 /\ returned.value.settingsConflict.remote = remote
           /\ returned.value.mergedSettings = local

\* C25: mergeLeaveBalance returns the local leave balance when both sides define one,
\* the only defined one when exactly one side defines one, and undefined when neither
\* side does.
C25_LeaveBalancePrefersLocal ==
    returned.fn = "mergeLeaveBalance"
    => /\ (args.local # Undef /\ args.remote # Undef) => returned.value = args.local
       /\ (args.local # Undef /\ args.remote = Undef) => returned.value = args.local
       /\ (args.local = Undef /\ args.remote # Undef) => returned.value = args.remote
       /\ (args.local = Undef /\ args.remote = Undef) => returned.value = Undef

\* both sides define a leave balance, of 25 days locally and of 30 days remotely
C25_Witness ==
    /\ returned.fn = "mergeLeaveBalance"
    /\ args.local = LeaveBalance(Num(25), Text(D1), Text(D2))
    /\ args.remote = LeaveBalance(Num(30), Text(D1), Text(D2))
    /\ returned.value = args.local

(***************************************************************************)
(* Properties of the codec.                                                *)
(***************************************************************************)
\* cs has the form YYYY-MM-DD: four digits, two digits and two digits, with hyphens
WellFormedDateKey(cs) ==
    /\ Len(cs) = 10
    /\ \A i \in 1..Len(cs) : IF i \in {5, 8} THEN cs[i] = "-" ELSE cs[i] \in Digits

\* cs is __proto__, constructor or prototype
ReservedName(cs) ==
    \/ cs = <<"_", "_", "p", "r", "o", "t", "o", "_", "_">>
    \/ cs = <<"c", "o", "n", "s", "t", "r", "u", "c", "t", "o", "r">>
    \/ cs = <<"p", "r", "o", "t", "o", "t", "y", "p", "e">>

\* C26: validateSyncPayload rejects every payload whose entries map has a key that is
\* not of the form YYYY-MM-DD or that is one of the reserved names __proto__,
\* constructor, prototype; hence every key of the mergedEntries and every date of the
\* entryConflicts that prepareSyncResult computes from an accepted payload, the only
\* keys of entries handed to onMerge, has that form and is not reserved (computed for
\* the payloads of at most MaxKeys entries).
C26_BadEntryKeysRejected ==
    returned.fn = "validateSyncPayload"
    => LET keys == ObjectKeys(ArgPayload.entries)
           Bad(key) == ~WellFormedDateKey(key) \/ ReservedName(key)
       IN  /\ (\E i \in 1..Len(keys) : Bad(keys[i])) => returned.value = FALSE
           /\ (returned.value = TRUE /\ Len(keys) <= MaxKeys)
              => LET result == prepareSyncResult(createLocalPayload, ArgPayload)
                 IN  /\ \A key \in RangeOf(ObjectKeys(result.mergedEntries)) : ~Bad(key)
                     /\ \A i \in 1..Len(result.entryConflicts) :
                           ~Bad(result.entryConflicts[i].date)

\* a payload whose second key is constructor, after a date, is rejected
C26_Witness ==
    /\ returned.fn = "validateSyncPayload"
    /\ ObjectKeys(ArgPayload.entries)
         = <<D1, <<"c", "o", "n", "s", "t", "r", "u", "c", "t", "o", "r">> >>
    /\ returned.value = FALSE

\* C27: validateSyncPayload rejects a payload with more than 10,000 entries or with
\* more than 5,000 adjustments, and accepts the well-formed payload with exactly
\* 10,000 entries and exactly 5,000 adjustments.
C27_SizeLimits ==
    returned.fn = "validateSyncPayload"
    => LET payload == ArgPayload
       IN  /\ Len(ObjectKeys(payload.entries)) > 10000 => returned.value = FALSE
           /\ (payload.adjustments.t = "array" /\ Len(payload.adjustments.items) > 5000)
              => returned.value = FALSE
           /\ (/\ args.kind = "sized"
               /\ Len(ObjectKeys(payload.entries)) = 10000
               /\ Len(payload.adjustments.items) = 5000)
              => returned.value = TRUE

\* the payload with 10,000 entries and 5,000 adjustments has been accepted
C27_Witness ==
    /\ returned.fn = "validateSyncPayload"
    /\ args.kind = "sized"
    /\ Len(ObjectKeys(ArgPayload.entries)) = 10000
    /\ Cardinality(RangeOf(ObjectKeys(ArgPayload.entries))) = 10000
    /\ Len(ArgPayload.adjustments.items) = 5000
    /\ returned.value = TRUE

\* C28: validateSyncPayload rejects every payload whose settings have a workingDays
\* element that is not an integer from 0 to 6, a nonWorkingDayRate that is not a
\* number, a weekStartsOn other than 0 or 1, or a nonWorkingDayDisplay that is not one
\* of show, disable, hide.
C28_BadSettingsRejected ==
    returned.fn = "validateSyncPayload"
    => LET st == ArgPayload.settings
           IsDay(d) == d.t = "number" /\ ~d.half /\ d.n \in 0..6
       IN  (\/ st.workingDays.t = "array"
                 /\ \E i \in 1..Len(st.workingDays.items) : ~IsDay(st.workingDays.items[i])
            \/ st.nonWorkingDayRate.t # "number"
            \/ st.weekStartsOn \notin {Num(0), Num(1)}
            \/ st.nonWorkingDayDisplay \notin {Str("show"), Str("disable"), Str("hide")})
           => returned.value = FALSE

(***************************************************************************)
(* Properties of the session controller: the status graph and the host     *)
(* timeout.                                                                *)
(***************************************************************************)
\* C29: every change of status follows an edge of the status graph (idle to hosting or
\* scanning, scanning to connecting, hosting to awaiting-acceptance, connecting or
\* awaiting-acceptance to syncing-entries, syncing-entries to syncing-settings, then to
\* entry-conflicts, settings-conflict or complete, any status to error or to idle).
\* Stated here is the case the claim singles out, which holds whenever the graph is
\* followed: status never moves from complete, entry-conflicts or settings-conflict
\* to syncing-entries, syncing-settings or awaiting-acceptance.
C29_NoWayBackFromLateStatus ==
    [][ (status \in {"complete", "entry-conflicts", "settings-conflict"})
        => (status' \notin {"syncing-entries", "syncing-settings", "awaiting-acceptance"})
      ]_vars

\* C30: at every moment at most one 120-second host timeout is armed, and one is armed
\* only while status is hosting, so that no timeout armed earlier can fire and change
\* status once a connection has been received, after reset, or after the session was
\* superseded.
C30_OneHostTimeoutOnlyWhileHosting ==
    /\ Cardinality(timers) <= 1
    /\ timers # {} => status = "hosting"

(***************************************************************************)
(* Properties of the session controller: superseded sessions.              *)
(***************************************************************************)
\* the connect attempt of manager m ends in this step: its promise resolves (the
\* connection opened) or rejects (connection error, or the 10-second timeout)
ConnectEnds(m) == mgr[m].promise = "pending" /\ mgr'[m].promise \in {"resolved", "rejected"}

\* C31: the outcome (success, error or 10-second timeout) of a connect attempt that
\* has been superseded by reset, by a later connectToPeer or by startHosting never
\* changes the status, the error reason or the outgoing messages of the later session.
C31_SupersededConnectIsInert ==
    [][ \A m \in Managers :
           (mgr[m].role = "initiator" /\ peerManager # m /\ ConnectEnds(m))
           => /\ status' = status
              /\ error' = error
              /\ sent' = sent ]_vars

\* a callback of manager m runs in this step: its identity opened, a connection came
\* in, data arrived, an error was reported, or its connect failed on the 10-second timer
CallbackOf(m) ==
    \/ PeerOpen(m)
    \/ IncomingConnection(m)
    \/ TransportError(m)
    \/ DialTimeout(m)
    \/ \E c \in 0..MaxConns : \E data \in Inbound(mgr[m].role, limits.payloads) :
           Data(m, c, data)

\* C32: startHosting and connectToPeer tear the prior transport session down before
\* they create a new one: at every moment the only live PeerConnectionManager is the
\* one the controller holds, and a callback of a torn-down manager never modifies the
\* state of the current session.
C32_TornDownManagerIsInert ==
    [][ /\ \A m \in Managers : mgr'[m].st = "live" => peerManager' = m
        /\ \A m \in Managers :
              (mgr[m].st = "destroyed" /\ peerManager \notin {0, m} /\ CallbackOf(m))
              => UNCHANGED <<status, error, pendingConnection, syncResult, peerManager,
                             activeConnection, timers, sent, delivered>> ]_vars

(* Properties of the session controller: the host's decision. *)
\* C33: an incoming connection while hosting sets status to awaiting-acceptance, stores
\* the connection as pendingConnection and cancels the host timeout, so that the
\* timeout cannot move the session to error while the host is deciding or after it has
\* accepted.
C33_NoHostTimeoutOnceConnected ==
    [][ /\ \A m \in Managers :
              (status = "hosting" /\ IncomingConnection(m))
              => /\ status' = "awaiting-acceptance"
                 /\ pendingConnection' = Conn(m, mgr'[m].used)
                 /\ timeoutRef' = 0
                 /\ timeoutRef \notin timers'
        /\ \A t \in 1..MaxTimers :
              ((status = "awaiting-acceptance" \/ connectionAccepted) /\ HostTimeout(t))
              => status' # "error" ]_vars

(* Properties of the session controller: message roles. *)
\* the messages this step sends
NewlySent == {sent'[i] : i \in (Len(sent) + 1)..Len(sent')}

\* this step calls prepareSyncResult
Merges == Len(merges') > Len(merges)

\* C34: message roles are respected in every session.  The host sends exactly one
\* SYNC_RESPONSE carrying its own payload for each valid SYNC_REQUEST it processes,
\* never sends SYNC_REQUEST and never merges on an inbound SYNC_RESPONSE; the initiator
\* sends SYNC_REQUEST only after a successful connect, never sends SYNC_RESPONSE and
\* never merges on an inbound SYNC_REQUEST; neither side sends SYNC_COMPLETE before it
\* has invoked onMerge.
C34_MessageRoles ==
    [][ /\ \A msg \in NewlySent :
              /\ mgr'[msg.conn.m].role = "host"
                    => /\ msg.type # "SYNC_REQUEST"
                       /\ msg.type = "SYNC_RESPONSE" => (Merges /\ msg.own)
              /\ mgr'[msg.conn.m].role = "initiator"
                    => /\ msg.type # "SYNC_RESPONSE"
                       /\ msg.type = "SYNC_REQUEST" => DialOpen(msg.conn.m)
              /\ msg.type = "SYNC_COMPLETE" => delivered' # <<>>
        /\ (Merges /\ DataStep) =>
              \A e \in DataEvents :
                 Data(e.m, e.c, e.data)
                    => /\ mgr[e.m].role = "host" => e.data.type = "SYNC_REQUEST"
                       /\ mgr[e.m].role = "initiator" => e.data.type = "SYNC_RESPONSE"
                       /\ mgr[e.m].role = "host"
                             => sent' = Append(sent, [type |-> "SYNC_RESPONSE",
                                                      conn |-> Conn(e.m, e.c), own |-> TRUE])
        /\ (Merges /\ AcceptConnection)
              => /\ pendingData[1].data.type = "SYNC_REQUEST"
                 /\ sent' = Append(sent, [type |-> "SYNC_RESPONSE",
                                          conn |-> pendingData[1].conn, own |-> TRUE]) ]_vars

(* Properties of the session controller: entry choices before the settings *)
(* choice.                                                                  *)
\* the merged entries with the chosen side's entry at every conflict date
WithChoices(result, resolutions) ==
    applyResolutions(result.mergedEntries, resolutions, result.entryConflicts)

\* C35: when resolveEntryConflicts resolves all entry conflicts and a settings conflict
\* is pending, status becomes settings-conflict, onMerge is not invoked and
\* SYNC_COMPLETE is not sent at that step, and the entries resolveSettingsConflict
\* delivers later are the ones holding the entry choices; when no settings conflict is
\* pending the call finalizes at once: onMerge gets the entries with the choices,
\* SYNC_COMPLETE is sent on the active connection when it is open, status is complete.
C35_EntryChoicesBeforeSettings ==
    [][ /\ ( /\ syncResult # <<>>
             /\ syncResult' # syncResult )
           => \A resolutions \in ResolutionMaps :
                 ( /\ syncResult[1].entryConflicts # <<>>
                   /\ DOMAIN resolutions = ConflictDates(syncResult[1])
                   /\ Commit(resolveEntryConflicts(Now, resolutions)) )
                 => LET old == syncResult[1]
                    IN  IF Truthy(old.settingsConflict)
                        THEN /\ status' = "settings-conflict"
                             /\ delivered' = delivered
                             /\ sent' = sent
                             /\ syncResult'[1].mergedEntries = WithChoices(old, resolutions)
                             /\ syncResult'[1].settingsConflict = old.settingsConflict
                        ELSE /\ status' = "complete"
                             /\ Len(delivered') = Len(delivered) + 1
                             /\ delivered'[Len(delivered')].entries
                                   = WithChoices(old, resolutions)
                             /\ sent' = IF ConnOpen(Now, activeConnection) /\ peerManager # 0
                                        THEN Append(sent, [type |-> "SYNC_COMPLETE",
                                                           conn |-> activeConnection,
                                                           own |-> FALSE])
                                        ELSE sent
        /\ (ResolveSettingsConflict /\ Delivers)
              => delivered'[Len(delivered')].entries = syncResult[1].mergedEntries ]_vars

\* the entry conflict of PayloadBoth was resolved with the peer's entry, then the
\* settings conflict with the peer's settings: the state delivered holds both choices
C35_Witness ==
    /\ status = "complete"
    /\ merges = <<PayloadBoth>>
    /\ delivered = <<[entries |-> syncResult[1].mergedEntries,
                      adjustments |-> syncResult[1].mergedAdjustments,
                      settings |-> SettingsAll,
                      leaveBalance |-> syncResult[1].mergedLeaveBalance]>>
    /\ Get(delivered[1].entries, D1) = EntryB
    /\ \E i \in 1..Len(sent) : sent[i].type = "SYNC_COMPLETE"

(* Properties of the session controller: rejected and further connections. *)
\* the host closed this connection with rejectConnection: it came in on the manager
\* and is not among its connections any more
Rejected(conn) ==
    /\ conn.m # 0
    /\ mgr[conn.m].st = "live"
    /\ conn.c \in 1..mgr[conn.m].used
    /\ conn.c \notin mgr[conn.m].conns

\* C36: a payload received on a connection the host rejected with rejectConnection is
\* never passed to prepareSyncResult and never contributes to a state delivered to
\* onMerge, in particular not when a later connection of another peer is accepted
\* before that peer's own request has arrived.
C36_RejectedPayloadNeverMerged ==
    [][ Merges => ~Rejected(tasks'[Len(tasks')].conn) ]_vars

\* C37: a session has exactly two parties.  Once the host has accepted a connection, a
\* further incoming connection of another peer changes neither status nor
\* pendingConnection, and a message arriving on a connection other than the accepted
\* one is never merged unless that connection was accepted itself.
C37_TwoPartiesOnly ==
    [][ /\ \A m \in Managers :
              (connectionAccepted /\ activeConnection # NoConn /\ IncomingConnection(m))
              => /\ status' = status
                 /\ pendingConnection' = pendingConnection
        /\ (Merges /\ DataStep) =>
              \A e \in DataEvents :
                 (Data(e.m, e.c, e.data) /\ mgr[e.m].role = "host")
                    => Conn(e.m, e.c) = activeConnection ]_vars

(* Properties of the session controller: after reset. *)
\* C38: after reset the controller stays idle with syncResult null, and onMerge is not
\* invoked, until the next user action: no continuation started before the reset (the
\* delayed steps of processSyncResult, the end of startHosting's identity creation, the
\* end of connectToPeer's connect) changes status, arms a timer, sends a message or
\* delivers a merge.
C38_IdleAfterReset ==
    [][ (status = "idle" /\ EnvironmentStep)
        => /\ status' = "idle"
           /\ syncResult' = <<>>
           /\ timers' \subseteq timers
           /\ sent' = sent
           /\ delivered' = delivered ]_vars

(* Properties of the merge engine: the two devices of a session. *)
\* the device's own state is well formed: no two of its adjustments share an id, and
\* no working day is listed twice
OwnState(payload) ==
    /\ Cardinality(IdsOf(payload.adjustments.items)) = Len(payload.adjustments.items)
    /\ \A i, j \in 1..Len(payload.settings.workingDays.items) :
          payload.settings.workingDays.items[i] = payload.settings.workingDays.items[j]
             => i = j

\* C39: when a session of two devices completes on both sides with no entry conflict
\* and no settings conflict, both devices have delivered the same state to onMerge:
\* the same merged entries, the same adjustments (same content per id, same order),
\* the same settings (the same set of working days, the other fields identical) and
\* the same leave balance.  One device merges prepareSyncResult(A, B), the other
\* prepareSyncResult(B, A).
C39_BothDevicesDeliverTheSame ==
    (returned.fn = "prepareSyncResult" /\ OwnState(args.local) /\ OwnState(args.remote))
    => LET ab == returned.value
           ba == prepareSyncResult(args.remote, args.local)
       IN  ( /\ ab.entryConflicts = <<>> /\ ~Truthy(ab.settingsConflict)
             /\ ba.entryConflicts = <<>> /\ ~Truthy(ba.settingsConflict) )
           => /\ RangeOf(ObjectKeys(ab.mergedEntries)) = RangeOf(ObjectKeys(ba.mergedEntries))
              /\ \A date \in RangeOf(ObjectKeys(ab.mergedEntries)) :
                    Get(ab.mergedEntries, date) = Get(ba.mergedEntries, date)
              /\ ab.mergedAdjustments = ba.mergedAdjustments
              /\ SameSettings(ab.mergedSettings, ba.mergedSettings)
              /\ ab.mergedLeaveBalance = ba.mergedLeaveBalance

(* Properties of the session controller: liveness of an honest session. *)
\* the connect succeeded: the manager of the session has its open connection
Connected == peerManager # 0 /\ mgr[peerManager].conns # {}

\* C40: in an honest session (the initiator's connect succeeds, the peer sends only
\* valid messages in the order of the protocol, no transport error and no reset
\* occurs, the host accepts, every prompt is answered with a full set of choices) the
\* device, host or initiator, reaches status complete and stays there.
C40_HonestSessionCompletes ==
    []<>(status # "awaiting-acceptance") => (Connected ~> [](status = "complete"))

\* the host answered both prompts of an honest session and the session is complete
C40_Witness ==
    /\ status = "complete"
    /\ Connected
    /\ mgr[peerManager].role = "host"
    /\ merges = <<PayloadBoth>>
    /\ Len(delivered) = 1
    /\ dataCount = MaxData
    /\ tasks = <<>>

====
